---- MODULE Spec2Model ----
(***************************************************************************)
(* Model of the content-migration pipeline of BDO-git/content-migration.   *)
(*                                                                         *)
(* Part 1: the Migration Executor (server/services/migrationService.js).   *)
(* A migrate run is an async call chain; every `await` on I/O is a         *)
(* suspension point, so a run is modelled as a program counter naming the  *)
(* I/O it waits for plus the stack of suspended traverseAndMigrate frames. *)
(***************************************************************************)
EXTENDS Integers, Sequences, FiniteSets, TLC

(***************************************************************************)
(* Bounds and input alphabets                                              *)
(***************************************************************************)
\* largest number of content directories below jcr_root in a modelled package
MaxNodes == 3

\* names content directories may carry
DirNames == {"a", "b"}

\* entries that may additionally sit in jcr_root: a packaging-metadata
\* directory (holding a descriptor of its own) and a plain binary file
ExtraNames == {"META-INF", "notes.txt"}

\* the shared MigrationService instance serves every request (module.exports)
Runs == {"r1", "r2"}

VARIABLES
    fs,         \* extracted package: path -> [kind, xml]; empty when the upload id is unknown
    enabled,    \* the requests that arrive in this behaviour
    pc,         \* per run: the I/O the run is suspended on, or idle/done/rejected
    dryRun,     \* per run: targetConfig.dryRun as sent by the caller
    stack,      \* per run: suspended traverseAndMigrate frames, innermost last
    results,    \* per run: the report object {processed, created, errors}
    inflight,   \* per run: paths whose POST has been sent and not yet answered
    visited,    \* history: per run, the directories handed to processNode, in order
    trace,      \* history: per run, the POST requests issued / answered, in order
    outcome,    \* history: per run, what happened to each directory's descriptor
    precond,    \* history: per run, result of the fatal precondition checks
    rebase,     \* path rebasing: the configured roots and the paths computed so far
    xform,      \* mapping rewrite: the mappings and the nodes computed so far;
                \* descriptor parser: the event stream and the parser's state
    analysis,   \* Usage Analyzer: the tree, its report and the exported rows;
                \* Tree Builder: the package and the settled build
    automap     \* Auto-Mapping Engine: the inventories and the match results

\* the state of the Migration Executor
migVars == <<fs, enabled, pc, dryRun, stack, results, inflight, visited, trace, outcome, precond>>

\* the state of the stages that are computed without suspension
pureVars == <<rebase, xform, analysis, automap>>

vars == <<migVars, pureVars>>

\* value of a stage's variable in behaviours that do not exercise the stage
Parked == "parked"

(***************************************************************************)
(* The extracted package on disk                                           *)
(***************************************************************************)
Root == <<>>

\* every prefix-closed set of at most n content directories below the root
RECURSIVE DirSets(_)
DirSets(n) ==
    IF n = 0 THEN {{Root}}
    ELSE LET prev == DirSets(n - 1)
         IN  prev \cup UNION {{t \cup {Append(p, nm)} : p \in t, nm \in DirNames} : t \in prev}

MkFs(dirs, xmls, extras) ==
    [p \in dirs \cup {<<e>> : e \in extras} |->
        IF p \in dirs THEN [kind |-> "dir", xml |-> p \in xmls]
        ELSE IF p = <<"META-INF">> THEN [kind |-> "dir", xml |-> TRUE]
        ELSE [kind |-> "file", xml |-> FALSE]]

\* no extraction directory for the upload id
AbsentFs == [p \in {} |-> [kind |-> "dir", xml |-> FALSE]]

\* jcr_root exists but is not a directory
RootFileFs == [p \in {Root} |-> [kind |-> "file", xml |-> FALSE]]

FileSystems ==
    {AbsentFs, RootFileFs} \cup
    UNION {UNION {{MkFs(dirs, xmls, extras) : extras \in SUBSET ExtraNames}
                  : xmls \in SUBSET dirs}
           : dirs \in DirSets(MaxNodes)}

\* fs.readdir order of the entry names
NameOrder == <<".content.xml", "META-INF", "a", "b", "notes.txt">>

RECURSIVE ListingFrom(_, _, _)
ListingFrom(f, p, i) ==
    IF i > Len(NameOrder) THEN <<>>
    ELSE LET nm == NameOrder[i]
             present == IF nm = ".content.xml" THEN f[p].xml
                        ELSE Append(p, nm) \in DOMAIN f
         IN  (IF present THEN <<nm>> ELSE <<>>) \o ListingFrom(f, p, i + 1)

\* fs.promises.readdir(currentPath)
Listing(f, p) == ListingFrom(f, p, 1)

SeqToSet(s) == {s[i] : i \in 1..Len(s)}

IsPrefix(a, d) == Len(a) <= Len(d) /\ SubSeq(d, 1, Len(a)) = a
IsProperAncestor(a, d) == Len(a) < Len(d) /\ IsPrefix(a, d)

(***************************************************************************)
(* traverseAndMigrate                                                      *)
(***************************************************************************)
\* children.includes('.content.xml')
HasDescriptor(children) == ".content.xml" \in SeqToSet(children)

\* child === '.content.xml' || child === 'META-INF'
ShouldSkip(child) == child = ".content.xml" \/ child = "META-INF"

Pop(stk) == SubSeq(stk, 1, Len(stk) - 1)

\* The for-loop of the innermost frame runs on until the next recursive call
\* suspends on fs.stat; a frame whose loop is exhausted returns to its caller.
\* The empty stack means the outermost call has returned.
RECURSIVE Advance(_)
Advance(stk) ==
    IF stk = <<>> THEN <<>>
    ELSE LET top == stk[Len(stk)]
         IN  IF top.idx > Len(top.children) THEN Advance(Pop(stk))
             ELSE LET child == top.children[top.idx]
                      moved == [stk EXCEPT ![Len(stk)].idx = top.idx + 1]
                  IN  IF ShouldSkip(child) THEN Advance(moved)
                      ELSE Append(moved, [path |-> Append(top.path, child),
                                          children |-> <<>>, idx |-> 1])

\* where the run is once the traversal has moved on
PcOf(stk) == IF stk = <<>> THEN "done" ELSE "stat"

TopPath(r) == stack[r][Len(stack[r])].path

NewResults == [processed |-> 0, created |-> 0, errors |-> <<>>]

(***************************************************************************)
(* Initial state                                                           *)
(***************************************************************************)
InitRun ==
    /\ pc = [r \in Runs |-> "idle"]
    /\ dryRun = [r \in Runs |-> FALSE]
    /\ stack = [r \in Runs |-> <<>>]
    /\ results = [r \in Runs |-> NewResults]
    /\ inflight = [r \in Runs |-> {}]
    /\ visited = [r \in Runs |-> <<>>]
    /\ trace = [r \in Runs |-> <<>>]
    /\ outcome = [r \in Runs |-> [p \in DOMAIN fs |-> "none"]]
    /\ precond = [r \in Runs |-> "unchecked"]

\* no request arrives: the state of the Migration Executor in behaviours that
\* exercise another stage
InitNoRun ==
    /\ fs = AbsentFs
    /\ enabled = {}
    /\ InitRun

Init ==
    /\ fs \in FileSystems
    /\ enabled = {"r1"}
    /\ InitRun
    /\ rebase = Parked /\ xform = Parked /\ analysis = Parked /\ automap = Parked

(***************************************************************************)
(* migrate                                                                 *)
(***************************************************************************)
\* POST /migrate calls migrate(uploadId, mappingReportPath, targetConfig);
\* migrate runs synchronously into parseMappingReport's readFile.
StartMigrate(r) ==
    /\ r \in enabled
    /\ pc[r] = "idle"
    /\ \E d \in BOOLEAN : dryRun' = [dryRun EXCEPT ![r] = d]
    /\ pc' = [pc EXCEPT ![r] = "mapping"]
    /\ UNCHANGED <<fs, enabled, stack, results, inflight, visited, trace, outcome, precond, pureVars>>

\* fs.existsSync(extractionPath)
SourceExists(f) == Root \in DOMAIN f

\* MappingReadDone as it would be if parseMappingReport swallowed a failed
\* read and went on with empty mappings.
MappingReadDoneLenient(r) ==
    /\ pc[r] = "mapping"
    /\ \E readable \in BOOLEAN :
        IF ~SourceExists(fs) THEN
            /\ pc' = [pc EXCEPT ![r] = "rejected"]
            /\ precond' = [precond EXCEPT ![r] = "sourceMissing"]
            /\ UNCHANGED <<stack, results>>
        ELSE
            /\ pc' = [pc EXCEPT ![r] = "stat"]
            /\ precond' = [precond EXCEPT ![r] = IF readable THEN "passed" ELSE "mappingUnreadable"]
            /\ results' = [results EXCEPT ![r] = NewResults]
            /\ stack' = [stack EXCEPT ![r] = <<[path |-> Root, children |-> <<>>, idx |-> 1]>>]
    /\ UNCHANGED <<fs, enabled, dryRun, inflight, visited, trace, outcome, pureVars>>

\* MappingReadDone as it would be if migrate kept the report on the shared
\* service instance (this.results = {...}) instead of in a local of the call.
MappingReadDoneShared(r) ==
    /\ pc[r] = "mapping"
    /\ \E readable \in BOOLEAN :
        IF ~readable THEN
            /\ pc' = [pc EXCEPT ![r] = "rejected"]
            /\ precond' = [precond EXCEPT ![r] = "mappingUnreadable"]
            /\ UNCHANGED <<stack, results>>
        ELSE IF ~SourceExists(fs) THEN
            /\ pc' = [pc EXCEPT ![r] = "rejected"]
            /\ precond' = [precond EXCEPT ![r] = "sourceMissing"]
            /\ UNCHANGED <<stack, results>>
        ELSE
            /\ pc' = [pc EXCEPT ![r] = "stat"]
            /\ precond' = [precond EXCEPT ![r] = "passed"]
            /\ results' = [q \in Runs |-> NewResults]
            /\ stack' = [stack EXCEPT ![r] = <<[path |-> Root, children |-> <<>>, idx |-> 1]>>]
    /\ UNCHANGED <<fs, enabled, dryRun, inflight, visited, trace, outcome, pureVars>>

\* The mapping file has been read (or the read failed).  On success migrate
\* checks the extraction directory, creates the report and enters the
\* traversal, which suspends on fs.stat of jcr_root.
MappingReadDone(r) ==
    /\ pc[r] = "mapping"
    /\ \E readable \in BOOLEAN :
        IF ~readable THEN
            /\ pc' = [pc EXCEPT ![r] = "rejected"]
            /\ precond' = [precond EXCEPT ![r] = "mappingUnreadable"]
            /\ UNCHANGED <<stack, results>>
        ELSE IF ~SourceExists(fs) THEN
            /\ pc' = [pc EXCEPT ![r] = "rejected"]
            /\ precond' = [precond EXCEPT ![r] = "sourceMissing"]
            /\ UNCHANGED <<stack, results>>
        ELSE
            /\ pc' = [pc EXCEPT ![r] = "stat"]
            /\ precond' = [precond EXCEPT ![r] = "passed"]
            /\ results' = [results EXCEPT ![r] = NewResults]
            /\ stack' = [stack EXCEPT ![r] = <<[path |-> Root, children |-> <<>>, idx |-> 1]>>]
    /\ UNCHANGED <<fs, enabled, dryRun, inflight, visited, trace, outcome, pureVars>>

\* fs.promises.stat(currentPath) answered: a directory goes on to readdir,
\* anything else makes the call return.
StatDone(r) ==
    /\ pc[r] = "stat"
    /\ IF fs[TopPath(r)].kind = "dir" THEN
            /\ pc' = [pc EXCEPT ![r] = "readdir"]
            /\ UNCHANGED stack
       ELSE LET s == Advance(Pop(stack[r]))
            IN  /\ stack' = [stack EXCEPT ![r] = s]
                /\ pc' = [pc EXCEPT ![r] = PcOf(s)]
    /\ UNCHANGED <<fs, enabled, dryRun, results, inflight, visited, trace, outcome, precond, pureVars>>

\* fs.promises.readdir answered: with a descriptor present processNode is
\* called and suspends on reading it, otherwise the loop over the children
\* starts.
ReaddirDone(r) ==
    /\ pc[r] = "readdir"
    /\ LET p == TopPath(r)
           children == Listing(fs, p)
           listed == [stack[r] EXCEPT ![Len(stack[r])].children = children]
       IN  IF HasDescriptor(children) THEN
                /\ stack' = [stack EXCEPT ![r] = listed]
                /\ pc' = [pc EXCEPT ![r] = "readFile"]
                /\ visited' = [visited EXCEPT ![r] = Append(@, p)]
           ELSE LET s == Advance(listed)
                IN  /\ stack' = [stack EXCEPT ![r] = s]
                    /\ pc' = [pc EXCEPT ![r] = PcOf(s)]
                    /\ UNCHANGED visited
    /\ UNCHANGED <<fs, enabled, dryRun, results, inflight, trace, outcome, precond, pureVars>>

(***************************************************************************)
(* processNode / createNode                                                *)
(***************************************************************************)
\* what parser.parseStringPromise can make of a descriptor that was read
ParseKinds == {"malformed", "noroot", "ok"}

\* processNode's bookkeeping once the parse has settled: a parse error lands
\* in the catch block; otherwise processed is incremented before the jcr:root
\* element is looked for.
ResultsAfterParse(res, p, kind) ==
    IF kind = "malformed" THEN [res EXCEPT !.errors = Append(@, p)]
    ELSE [res EXCEPT !.processed = @ + 1]

\* createNode's return value: true when axios.post resolved, false when it
\* threw (error status or network failure); the exception is swallowed.
createNode(accepted) == accepted

\* processNode after `await this.createNode(...)`: the return value is not
\* looked at and created is incremented.
ResultsAfterCreate(res, p, ret) == [res EXCEPT !.created = @ + 1]

\* readFile of the descriptor answered.  The read sits outside processNode's
\* try block: a failure propagates through every traverseAndMigrate frame and
\* migrate rethrows it.
ReadFileDone(r) ==
    /\ pc[r] = "readFile"
    /\ \E readable \in BOOLEAN :
        IF readable THEN
            /\ pc' = [pc EXCEPT ![r] = "parse"]
            /\ UNCHANGED <<stack, outcome>>
        ELSE
            /\ pc' = [pc EXCEPT ![r] = "rejected"]
            /\ stack' = [stack EXCEPT ![r] = <<>>]
            /\ outcome' = [outcome EXCEPT ![r][TopPath(r)] = "unreadable"]
    /\ UNCHANGED <<fs, enabled, dryRun, results, inflight, visited, trace, precond, pureVars>>

\* ParseDone as it would be if processNode did not await createNode: the
\* POST is sent and the traversal moves on at once.
ParseDoneNoAwait(r) ==
    /\ pc[r] = "parse"
    /\ LET p == TopPath(r)
           s == Advance(stack[r])
       IN  \E kind \in ParseKinds :
            /\ stack' = [stack EXCEPT ![r] = s]
            /\ pc' = [pc EXCEPT ![r] = PcOf(s)]
            /\ IF kind = "ok" THEN
                    /\ results' = [results EXCEPT ![r] =
                            ResultsAfterCreate(ResultsAfterParse(@, p, kind), p, TRUE)]
                    /\ inflight' = [inflight EXCEPT ![r] = @ \cup {p}]
                    /\ trace' = [trace EXCEPT ![r] = Append(@, [op |-> "issue", path |-> p])]
                    /\ outcome' = [outcome EXCEPT ![r][p] = "posting"]
               ELSE /\ results' = [results EXCEPT ![r] = ResultsAfterParse(@, p, kind)]
                    /\ outcome' = [outcome EXCEPT ![r][p] = kind]
                    /\ UNCHANGED <<inflight, trace>>
    /\ UNCHANGED <<fs, enabled, dryRun, visited, precond, pureVars>>

\* parseStringPromise settled.  A malformed descriptor is recorded and the
\* traversal moves on; a document without jcr:root is counted and dropped;
\* otherwise the node is transformed and createNode sends the POST.
ParseDone(r) ==
    /\ pc[r] = "parse"
    /\ LET p == TopPath(r)
       IN  \E kind \in ParseKinds :
            /\ results' = [results EXCEPT ![r] = ResultsAfterParse(@, p, kind)]
            /\ IF kind = "ok" THEN
                    /\ inflight' = [inflight EXCEPT ![r] = @ \cup {p}]
                    /\ trace' = [trace EXCEPT ![r] = Append(@, [op |-> "issue", path |-> p])]
                    /\ outcome' = [outcome EXCEPT ![r][p] = "posting"]
                    /\ pc' = [pc EXCEPT ![r] = "post"]
                    /\ UNCHANGED stack
               ELSE LET s == Advance(stack[r])
                    IN  /\ stack' = [stack EXCEPT ![r] = s]
                        /\ pc' = [pc EXCEPT ![r] = PcOf(s)]
                        /\ outcome' = [outcome EXCEPT ![r][p] = kind]
                        /\ UNCHANGED <<inflight, trace>>
    /\ UNCHANGED <<fs, enabled, dryRun, visited, precond, pureVars>>

\* PostDone as it would be if createNode sent a rejected request again.
PostDoneRetry(r) ==
    /\ pc[r] = "post"
    /\ LET p == TopPath(r)
           s == Advance(stack[r])
       IN  \E accepted \in BOOLEAN :
            IF accepted THEN
                /\ results' = [results EXCEPT ![r] = ResultsAfterCreate(@, p, createNode(accepted))]
                /\ outcome' = [outcome EXCEPT ![r][p] = "written"]
                /\ inflight' = [inflight EXCEPT ![r] = @ \ {p}]
                /\ trace' = [trace EXCEPT ![r] = Append(@, [op |-> "answer", path |-> p])]
                /\ stack' = [stack EXCEPT ![r] = s]
                /\ pc' = [pc EXCEPT ![r] = PcOf(s)]
            ELSE
                /\ Len(trace[r]) < 2 * Cardinality(DOMAIN fs) + 2
                /\ trace' = [trace EXCEPT ![r] = @ \o <<[op |-> "answer", path |-> p],
                                                        [op |-> "issue", path |-> p]>>]
                /\ UNCHANGED <<results, outcome, inflight, stack, pc>>
    /\ UNCHANGED <<fs, enabled, dryRun, visited, precond, pureVars>>

\* axios.post settled: createNode returns, processNode counts the node as
\* created and returns, and the caller's loop over the children starts.
PostDone(r) ==
    /\ pc[r] = "post"
    /\ LET p == TopPath(r)
           s == Advance(stack[r])
       IN  \E accepted \in BOOLEAN :
            /\ results' = [results EXCEPT ![r] = ResultsAfterCreate(@, p, createNode(accepted))]
            /\ outcome' = [outcome EXCEPT ![r][p] = IF accepted THEN "written" ELSE "rejected"]
            /\ inflight' = [inflight EXCEPT ![r] = @ \ {p}]
            /\ trace' = [trace EXCEPT ![r] = Append(@, [op |-> "answer", path |-> p])]
            /\ stack' = [stack EXCEPT ![r] = s]
            /\ pc' = [pc EXCEPT ![r] = PcOf(s)]
    /\ UNCHANGED <<fs, enabled, dryRun, visited, precond, pureVars>>

(***************************************************************************)
(* Specification                                                           *)
(***************************************************************************)
Next ==
    \E r \in Runs :
        \/ StartMigrate(r)
        \/ MappingReadDone(r)
        \/ StatDone(r)
        \/ ReaddirDone(r)
        \/ ReadFileDone(r)
        \/ ParseDone(r)
        \/ PostDone(r)

Spec == Init /\ [][Next]_vars

(***************************************************************************)
(* Specification of two requests served by the one MigrationService        *)
(***************************************************************************)
\* directories below jcr_root in the package both requests name
MaxSharedNodes == 1

SharedFileSystems ==
    UNION {{MkFs(dirs, xmls, {}) : xmls \in SUBSET dirs} : dirs \in DirSets(MaxSharedNodes)}

\* both POST /migrate requests are admitted; every await of one call is a
\* point where the other call's continuation may run
InitTwoRuns ==
    /\ fs \in SharedFileSystems
    /\ enabled = Runs
    /\ InitRun
    /\ rebase = Parked /\ xform = Parked /\ analysis = Parked /\ automap = Parked

SpecTwoRuns == InitTwoRuns /\ [][Next]_vars

TypeOK ==
    /\ fs \in FileSystems
    /\ \A r \in Runs :
        /\ pc[r] \in {"idle", "mapping", "stat", "readdir", "readFile", "parse", "post", "done", "rejected"}
        /\ results[r].processed \in Nat
        /\ results[r].created \in Nat
        /\ Cardinality(inflight[r]) \in Nat

(***************************************************************************)
(* Tree Builder: the directory nodes of the tree built for the same        *)
(* package                                                                 *)
(***************************************************************************)
\* TreeService.traverse creates one child node per directory entry, skipping
\* META-INF, and recurses into it; plain files yield no node.
BuilderDirNodes(f) ==
    {p \in DOMAIN f : p # Root /\ f[p].kind = "dir" /\ "META-INF" \notin SeqToSet(p)}

(***************************************************************************)
(* Properties of the Migration Executor                                    *)
(***************************************************************************)
Terminated(r) == pc[r] \in {"done", "rejected"}

IssueAt(r, i, p) == trace[r][i] = [op |-> "issue", path |-> p]
AnswerAt(r, i, p) == trace[r][i] = [op |-> "answer", path |-> p]

IssueCount(r, p) == Cardinality({i \in 1..Len(trace[r]) : IssueAt(r, i, p)})

\* the directories the report counted in processed
Counted(r) == {p \in DOMAIN fs : outcome[r][p] \in {"noroot", "posting", "written", "rejected"}}

\* C1: after a completed run the returned report satisfies
\* processed = created + number of entries in errors.
C1_ProcessedIsCreatedPlusErrors ==
    \A r \in Runs :
        pc[r] = "done" =>
            results[r].processed = results[r].created + Len(results[r].errors)

\* C2: a node whose write the target rejected has an entry in errors and is
\* not counted in created (created counts only the accepted writes).
C2_RejectedWriteIsRecorded ==
    \A r \in Runs : \A p \in DOMAIN fs :
        outcome[r][p] = "rejected" =>
            /\ p \in SeqToSet(results[r].errors)
            /\ results[r].created = Cardinality({q \in DOMAIN fs : outcome[r][q] = "written"})

\* C3: within a run at most one write is in flight, every write is answered
\* before the next one is issued, and a node's write is issued and answered
\* before the write of any of its descendants is issued.
C3_WritesSequentialPreOrder ==
    \A r \in Runs :
        /\ Cardinality(inflight[r]) <= 1
        /\ \A i \in 1..Len(trace[r]) : \A j \in 1..Len(trace[r]) :
            /\ (i < j /\ trace[r][i].op = "issue" /\ trace[r][j].op = "issue")
                    => \E k \in (i + 1)..(j - 1) : AnswerAt(r, k, trace[r][i].path)
            /\ (trace[r][i].op = "issue" /\ trace[r][j].op = "issue"
                /\ IsProperAncestor(trace[r][i].path, trace[r][j].path))
                    => i < j

\* C3 witness: a descendant's write has been issued after its ancestor's
\* write was issued and answered.
C3_Witness ==
    \E r \in Runs : \E i \in 1..Len(trace[r]) : \E k \in 1..Len(trace[r]) : \E j \in 1..Len(trace[r]) :
        /\ i < k /\ k < j
        /\ trace[r][i].op = "issue" /\ trace[r][j].op = "issue"
        /\ AnswerAt(r, k, trace[r][i].path)
        /\ IsProperAncestor(trace[r][i].path, trace[r][j].path)
        /\ trace[r][j].path \in inflight[r]

\* C4: when a node failed (write rejected or descriptor unparseable), every
\* descendant directory that has a descriptor has been processed by the time
\* the run ends.
C4_DescendantsOfFailedNodeProcessed ==
    \A r \in Runs :
        Terminated(r) =>
            \A a \in DOMAIN fs : \A d \in BuilderDirNodes(fs) :
                (outcome[r][a] \in {"rejected", "malformed"}
                 /\ IsProperAncestor(a, d) /\ fs[d].xml)
                    => d \in SeqToSet(visited[r])

\* C5: no write is issued for the root of the content hierarchy and the root
\* is never handed to processNode (so never counted in processed).
C5_RootNeverWritten ==
    \A r \in Runs :
        /\ Root \notin SeqToSet(visited[r])
        /\ IssueCount(r, Root) = 0

\* C6: a completed run over a package the Tree Builder can build counts in
\* processed exactly the non-root nodes the Tree Builder produces for the
\* directories, each once.
C6_ProcessedIsBuilderNodes ==
    \A r \in Runs :
        (pc[r] = "done" /\ fs[Root].kind = "dir"
         /\ \A p \in DOMAIN fs : outcome[r][p] # "malformed")
            => /\ Counted(r) = BuilderDirNodes(fs)
               /\ results[r].processed = Cardinality(BuilderDirNodes(fs))

\* C7: within a run at most one write is issued per source node (a rejected
\* write is not retried) and no directory is handed to processNode twice.
C7_AtMostOneWritePerNode ==
    \A r \in Runs :
        /\ \A p \in DOMAIN fs : IssueCount(r, p) <= 1
        /\ \A i \in 1..Len(visited[r]) : \A j \in 1..Len(visited[r]) :
                visited[r][i] = visited[r][j] => i = j

\* C7 witness: a run has ended in which a node's write was rejected and that
\* node's write was issued once.
C7_Witness ==
    \E r \in Runs : \E p \in DOMAIN fs :
        /\ pc[r] = "done"
        /\ outcome[r][p] = "rejected"
        /\ IssueCount(r, p) = 1
        /\ Len(visited[r]) >= 2

\* C8: with dryRun set no write request is issued and errors stays empty.
C8_DryRunIssuesNoWrite ==
    \A r \in Runs :
        dryRun[r] => /\ trace[r] = <<>>
                     /\ results[r].errors = <<>>

\* C9: when the source content directory does not exist or the mapping file
\* cannot be read, migrate rejects with no write issued and no node processed.
C9_FatalPreconditionAborts ==
    \A r \in Runs :
        ((~SourceExists(fs) /\ pc[r] \notin {"idle", "mapping"})
         \/ precond[r] \in {"mappingUnreadable", "sourceMissing"})
            => /\ pc[r] = "rejected"
               /\ trace[r] = <<>>
               /\ visited[r] = <<>>
               /\ stack[r] = <<>>
               /\ results[r].processed = 0

\* C9 witness: a run was rejected because its mapping file could not be read
\* although the source directory exists and holds a descriptor.
C9_Witness ==
    \E r \in Runs :
        /\ pc[r] = "rejected"
        /\ precond[r] = "mappingUnreadable"
        /\ SourceExists(fs)
        /\ \E p \in DOMAIN fs : fs[p].xml

\* C10: once the fatal precondition checks have passed the run is never
\* rejected: it runs to completion and returns a report.
C10_NoAbortAfterPreconditions ==
    \A r \in Runs :
        precond[r] = "passed" => pc[r] # "rejected"

(***************************************************************************)
(* Properties of two interleaved runs                                      *)
(***************************************************************************)
\* the run whose continuation the step executed
Stepped(r) == <<pc[r], stack[r], trace[r]>>' # <<pc[r], stack[r], trace[r]>>

\* the report of run r accounts for the descriptors run r itself handled
OwnReport(r) ==
    /\ results[r].processed = Cardinality(Counted(r))
    /\ results[r].created = Cardinality({p \in DOMAIN fs : outcome[r][p] \in {"written", "rejected"}})
    /\ SeqToSet(results[r].errors) = {p \in DOMAIN fs : outcome[r][p] = "malformed"}
    /\ Len(results[r].errors) = Cardinality(SeqToSet(results[r].errors))

\* C28: two migrate runs interleaved on the shared MigrationService instance
\* each hold a report whose processed, created and errors reflect only that
\* run's own nodes, and no step of one run changes the other run's report.
C28_RunsKeepOwnReports ==
    /\ [](\A r \in Runs : OwnReport(r))
    /\ [][\A r \in Runs : \A q \in Runs \ {r} : Stepped(q) => results'[r] = results[r]]_vars

\* C28 witness: both runs are inside the traversal at the same time, each
\* waiting for an answer, and their reports differ.
C28_Witness ==
    /\ pc["r1"] = "post" /\ pc["r2"] = "parse"
    /\ results["r2"].errors # <<>>
    /\ results["r1"].processed > 0
    /\ results["r1"] # results["r2"]

(***************************************************************************)
(* Part 2: strings.  A string is the sequence of its characters.           *)
(***************************************************************************)
\* all strings over the alphabet of length at most n
StringsUpTo(alphabet, n) == UNION {[1..k -> alphabet] : k \in 0..n}

\* String.prototype.startsWith
StartsWith(str, prefix) == IsPrefix(prefix, str)

\* String.prototype.indexOf, 1-based; 0 when sub does not occur
IndexOf(str, sub) ==
    LET hits == {i \in 1..(Len(str) - Len(sub) + 1) : SubSeq(str, i, i + Len(sub) - 1) = sub}
    IN  IF hits = {} THEN 0 ELSE CHOOSE i \in hits : \A j \in hits : i <= j

\* String.prototype.includes
Includes(str, sub) == IndexOf(str, sub) > 0

\* String.prototype.replace with a string pattern: the first occurrence only
ReplaceFirst(str, pattern, replacement) ==
    LET i == IndexOf(str, pattern)
    IN  IF i = 0 THEN str
        ELSE SubSeq(str, 1, i - 1) \o replacement \o SubSeq(str, i + Len(pattern), Len(str))

(***************************************************************************)
(* processNode: path rebasing                                              *)
(***************************************************************************)
\* longest relative path and longest configured root that are modelled
MaxPathLen == 4
MaxRootLen == 2

\* how often the rebasing is applied to its own result
MaxRebaseRuns == 2

PathChars == {"/", "c", "w"}

\* RebasePath as it would be if a path outside the source root were anchored
\* under the target root (the fallback the code's comment considers).
RebasePathAnchored(relPath, cfg) ==
    IF cfg.targetRoot # <<>> /\ cfg.sourceRoot # <<>> THEN
        IF StartsWith(relPath, cfg.sourceRoot)
        THEN ReplaceFirst(relPath, cfg.sourceRoot, cfg.targetRoot)
        ELSE cfg.targetRoot \o relPath
    ELSE relPath

\* finalTargetPath of processNode; an unset root (undefined or '') is <<>>
RebasePath(relPath, cfg) ==
    IF cfg.targetRoot # <<>> /\ cfg.sourceRoot # <<>> THEN
        IF StartsWith(relPath, cfg.sourceRoot)
        THEN ReplaceFirst(relPath, cfg.sourceRoot, cfg.targetRoot)
        ELSE relPath
    ELSE relPath

InitRebase ==
    /\ InitNoRun
    /\ xform = Parked /\ analysis = Parked /\ automap = Parked
    /\ \E relPath \in StringsUpTo(PathChars, MaxPathLen) :
       \E src \in StringsUpTo(PathChars, MaxRootLen) :
       \E tgt \in StringsUpTo(PathChars, MaxRootLen) :
            rebase = [cfg |-> [sourceRoot |-> src, targetRoot |-> tgt],
                      paths |-> <<relPath>>]

\* processNode computes the target path of the path computed last
RebaseStep ==
    /\ Len(rebase.paths) <= MaxRebaseRuns
    /\ rebase' = [rebase EXCEPT !.paths =
                    Append(@, RebasePath(rebase.paths[Len(rebase.paths)], rebase.cfg))]
    /\ UNCHANGED <<migVars, xform, analysis, automap>>

NextRebase == RebaseStep

SpecRebase == InitRebase /\ [][NextRebase]_vars

RootsSet(cfg) == cfg.sourceRoot # <<>> /\ cfg.targetRoot # <<>>

Scalar(str) == [tag |-> "scalar", str |-> str, fields |-> <<>>]
Object(fields) == [tag |-> "object", str |-> "", fields |-> fields]

\* typeof value === 'object' && !Array.isArray(value)
IsObject(v) == v.tag = "object"

KeysOf(fields) == {fields[i].key : i \in 1..Len(fields)}

\* node[key], for a key the object has
GetField(fields, k) == fields[CHOOSE i \in 1..Len(fields) : fields[i].key = k].value

\* newNode[key] = value: an existing key keeps its position
SetField(fields, k, v) ==
    IF k \in KeysOf(fields)
    THEN [i \in 1..Len(fields) |-> IF fields[i].key = k THEN [key |-> k, value |-> v] ELSE fields[i]]
    ELSE Append(fields, [key |-> k, value |-> v])

\* mappings.components.has(node['sling:resourceType']) and the like: the
\* property is present, is a string and is a key of the map
TypeMapped(fields, typeKey, map) ==
    /\ typeKey \in KeysOf(fields)
    /\ ~IsObject(GetField(fields, typeKey))
    /\ GetField(fields, typeKey).str \in DOMAIN map

\* NewKey as it would be if the property map of any mapped component were
\* applied without looking at the node's own resource type.
NewKeyAnyComponent(fields, key, M) ==
    LET having == {c \in DOMAIN M.components : key \in DOMAIN M.components[c].properties}
    IN  IF having # {}
        THEN M.components[CHOOSE c \in having : TRUE].properties[key]
        ELSE key

\* the key under which transformNode stores the entry: the component
\* mapping's property map first, the template mapping's otherwise
NewKey(fields, key, M) ==
    LET byComponent == /\ TypeMapped(fields, "sling:resourceType", M.components)
                       /\ key \in DOMAIN M.components[GetField(fields, "sling:resourceType").str].properties
        byTemplate  == /\ TypeMapped(fields, "cq:template", M.templates)
                       /\ key \in DOMAIN M.templates[GetField(fields, "cq:template").str].properties
    IN  IF byComponent
        THEN M.components[GetField(fields, "sling:resourceType").str].properties[key]
        ELSE IF byTemplate
        THEN M.templates[GetField(fields, "cq:template").str].properties[key]
        ELSE key

\* the value transformNode stores for a scalar entry
NewValue(key, value, M) ==
    LET v1 == IF key = "sling:resourceType" /\ value.str \in DOMAIN M.components
              THEN Scalar(M.components[value.str].targetPath) ELSE value
    IN  IF key = "cq:template" /\ value.str \in DOMAIN M.templates
        THEN Scalar(M.templates[value.str].targetPath) ELSE v1

\* the loop over Object.entries(node), from entry i on, into newNode
RECURSIVE TransformEntries(_, _, _, _)
TransformEntries(fields, M, i, newNode) ==
    IF i > Len(fields) THEN newNode
    ELSE LET key == fields[i].key
             value == fields[i].value
         IN  IF IsObject(value)
             THEN TransformEntries(fields, M, i + 1,
                    SetField(newNode, key, Object(TransformEntries(value.fields, M, 1, <<>>))))
             ELSE TransformEntries(fields, M, i + 1,
                    SetField(newNode, NewKey(fields, key, M), NewValue(key, value, M)))

transformNode(node, M) == Object(TransformEntries(node.fields, M, 1, <<>>))

\* the entries of an object as a map, for comparing objects regardless of
\* the order of their keys
RECURSIVE AsMap(_)
AsMap(v) ==
    IF IsObject(v)
    THEN [k \in KeysOf(v.fields) |-> AsMap(GetField(v.fields, k))]
    ELSE <<"scalar", v.str>>

----
\* largest number of properties of a modelled element, and how often the
\* rewrite is applied to its own result
MaxProps == 2
MaxTransformRuns == 2

TypeKeys == {"sling:resourceType", "cq:template"}

\* the values a property may carry in a modelled descriptor
ValuesOf(key) ==
    CASE key = "sling:resourceType" -> {"X", "Y"}
      [] key = "cq:template"        -> {"T"}
      [] key = "s"                  -> {"v", "X"}
      [] OTHER                      -> {"w"}

PropNames == {"sling:resourceType", "cq:template", "s", "t"}

\* the elements with at most n scalar properties
RECURSIVE FlatFields(_)
FlatFields(n) ==
    IF n = 0 THEN {<<>>}
    ELSE LET prev == FlatFields(n - 1)
         IN  prev \cup UNION {UNION {{Append(f, [key |-> k, value |-> Scalar(val)]) : val \in ValuesOf(k)}
                                     : k \in PropNames \ KeysOf(f)}
                              : f \in prev}

\* elements, optionally with a jcr:content child holding one property
Nodes ==
    {Object(f) : f \in FlatFields(MaxProps)} \cup
    {Object(Append(f, [key |-> "jcr:content", value |-> Object(c)])) :
        f \in FlatFields(MaxProps), c \in FlatFields(1)}

\* property maps of a mapping row ("s=t;...")
PropMaps ==
    {<<>>,
     [k \in {"s"} |-> "t"],
     [k \in {"s", "t"} |-> IF k = "s" THEN "t" ELSE "u"],
     [k \in {"s"} |-> "sling:resourceType"]}

EntriesOver(sources, targets, propMaps) ==
    UNION {[d -> [targetPath : targets, properties : propMaps]] : d \in SUBSET sources}

\* what parseMappingReport can return
MappingSets ==
    {[components |-> c, templates |-> t] :
        c \in EntriesOver({"X", "Y"}, {"X", "Y", "Z"}, PropMaps),
        t \in EntriesOver({"T"}, {"T", "U"}, {<<>>, [k \in {"t"} |-> "s"]})}

InitTransform ==
    /\ InitNoRun
    /\ rebase = Parked /\ analysis = Parked /\ automap = Parked
    /\ \E n \in Nodes : \E M \in MappingSets :
            xform = [mappings |-> M, nodes |-> <<n>>]

\* processNode transforms the node computed last
TransformStep ==
    /\ Len(xform.nodes) <= MaxTransformRuns
    /\ xform' = [xform EXCEPT !.nodes =
                    Append(@, transformNode(xform.nodes[Len(xform.nodes)], xform.mappings))]
    /\ UNCHANGED <<migVars, rebase, analysis, automap>>

NextTransform == TransformStep

SpecTransform == InitTransform /\ [][NextTransform]_vars

\* the top-level scalar properties of the node a rewrite started from
ScalarKeys(node) == {k \in KeysOf(node.fields) : ~IsObject(GetField(node.fields, k))}

\* the property map that applies to a node: its component mapping's, or its
\* template mapping's for the keys the component mapping does not rename
ApplicablePropMaps(node, M) ==
    (IF TypeMapped(node.fields, "sling:resourceType", M.components)
     THEN {M.components[GetField(node.fields, "sling:resourceType").str].properties} ELSE {})
    \cup
    (IF TypeMapped(node.fields, "cq:template", M.templates)
     THEN {M.templates[GetField(node.fields, "cq:template").str].properties} ELSE {})

\* C12: when a mapping with property map {s -> t} applies to a node that has
\* property s, the rewritten node carries t with the value s had and still
\* carries s with its original value.
C12_PropertyCopyIsAdditive ==
    Len(xform.nodes) >= 2 =>
        LET n == xform.nodes[1]
            out == xform.nodes[2]
        IN  \A pm \in ApplicablePropMaps(n, xform.mappings) :
            \A s \in (ScalarKeys(n) \ TypeKeys) \cap DOMAIN pm :
                /\ pm[s] \in KeysOf(out.fields)
                /\ GetField(out.fields, pm[s]) = GetField(n.fields, s)
                /\ s \in KeysOf(out.fields)
                /\ GetField(out.fields, s) = GetField(n.fields, s)

\* C13 as claimed: for every node and every mapping set, rewriting the
\* rewritten node again gives the same node.
C13_TransformIdempotent ==
    Len(xform.nodes) >= 3 => AsMap(xform.nodes[3]) = AsMap(xform.nodes[2])

\* no mapping target is itself mapped: no target type is a source of its
\* kind, and no property is renamed to sling:resourceType or cq:template
TargetsUnmapped(M) ==
    /\ \A c \in DOMAIN M.components :
        /\ M.components[c].targetPath \notin DOMAIN M.components
        /\ \A k \in DOMAIN M.components[c].properties :
                M.components[c].properties[k] \notin TypeKeys
    /\ \A t \in DOMAIN M.templates :
        /\ M.templates[t].targetPath \notin DOMAIN M.templates
        /\ \A k \in DOMAIN M.templates[t].properties :
                M.templates[t].properties[k] \notin TypeKeys

\* C13 (amended): when no mapping target is itself mapped, rewriting the
\* rewritten node again gives the same node.
C13_TransformIdempotentWhenTargetsUnmapped ==
    (Len(xform.nodes) >= 3 /\ TargetsUnmapped(xform.mappings))
        => AsMap(xform.nodes[3]) = AsMap(xform.nodes[2])

\* C13 witness: a node whose resource type and a property were rewritten by
\* a mapping with unmapped targets and a chained property map has been
\* rewritten twice.
C13_Witness ==
    /\ Len(xform.nodes) = 3
    /\ TargetsUnmapped(xform.mappings)
    /\ AsMap(xform.nodes[2]) # AsMap(xform.nodes[1])
    /\ TypeMapped(xform.nodes[1].fields, "sling:resourceType", xform.mappings.components)
    /\ "s" \in KeysOf(xform.nodes[1].fields)
    /\ {"s", "t"} \subseteq
        DOMAIN xform.mappings.components[GetField(xform.nodes[1].fields, "sling:resourceType").str].properties

(***************************************************************************)
(* Part 3: Usage Analyzer (server/services/analysisService.js)             *)
(*                                                                         *)
(* A ContentNode is [props, children]: props maps property names to        *)
(* values, children is the ordered sequence of child nodes.                *)
(***************************************************************************)
\* largest number of nodes of a modelled tree
MaxTreeNodes == 3

\* the property sets a modelled node may carry: a folder, components of two
\* types, pages referencing templates, and empty references
NodeKinds ==
    {<<>>,
     [k \in {"sling:resourceType", "jcr:title"} |-> IF k = "jcr:title" THEN "x" ELSE "A"],
     [k \in {"sling:resourceType", "text"} |-> IF k = "text" THEN "y" ELSE "A"],
     [k \in {"sling:resourceType"} |-> "B"],
     [k \in {"cq:template", "sling:resourceType"} |-> IF k = "cq:template" THEN "T1" ELSE "A"],
     [k \in {"cq:template"} |-> "T2"],
     [k \in {"cq:template"} |-> "t\"q"],
     [k \in {"cq:template", "sling:resourceType"} |-> ""]}

\* Array.prototype.sort on strings: UTF-16 code unit order of the
\* identifiers that occur in modelled trees
LexOrder == <<"A", "B", "T1", "T2", "cq:template", "jcr:title",
              "sling:resourceType", "t\"q", "text">>

\* the members of a set of strings in sorted order
RECURSIVE SortedFrom(_, _)
SortedFrom(strs, i) ==
    IF i > Len(LexOrder) THEN <<>>
    ELSE (IF LexOrder[i] \in strs THEN <<LexOrder[i]>> ELSE <<>>) \o SortedFrom(strs, i + 1)

Sorted(strs) == SortedFrom(strs, 1)

RECURSIVE TreeSize(_)
RECURSIVE ForestSize(_)
TreeSize(t) == 1 + ForestSize(t.children)
ForestSize(f) == IF f = <<>> THEN 0 ELSE TreeSize(Head(f)) + ForestSize(Tail(f))

\* the trees with at most n nodes and the forests with at most m nodes
RECURSIVE TreesUpTo(_)
RECURSIVE ForestsUpTo(_)
TreesUpTo(n) ==
    IF n = 0 THEN {}
    ELSE {[props |-> k, children |-> cs] : k \in NodeKinds, cs \in ForestsUpTo(n - 1)}
ForestsUpTo(m) ==
    IF m = 0 THEN {<<>>}
    ELSE {<<>>} \cup UNION {{<<t>> \o f : f \in ForestsUpTo(m - TreeSize(t))} : t \in TreesUpTo(m)}

\* a JavaScript value used as a condition: the empty string is falsy
Truthy(str) == str # ""

\* node.properties && node.properties[key]
HasTruthy(node, key) == key \in DOMAIN node.props /\ Truthy(node.props[key])

EmptyReport == [templates |-> <<>>, components |-> <<>>]

\* report.templates.add(value): a Set keeps the first insertion
AddTemplate(report, value) ==
    IF value \in SeqToSet(report.templates) THEN report
    ELSE [report EXCEPT !.templates = Append(@, value)]

\* AddComponent as it would be if a later node's keys replaced the recorded
\* property set instead of being added to it.
AddComponentReplacing(report, rt, keys) ==
    LET known == {i \in 1..Len(report.components) : report.components[i].resourceType = rt}
    IN  IF known = {}
        THEN [report EXCEPT !.components =
                Append(@, [resourceType |-> rt, count |-> 1, properties |-> keys])]
        ELSE LET i == CHOOSE i \in known : TRUE
             IN  [report EXCEPT !.components[i] =
                    [resourceType |-> rt, count |-> @.count + 1, properties |-> keys]]

\* the component branch of traverse: initialise the entry if new, increment
\* count, add every property key of the node
AddComponent(report, rt, keys) ==
    LET known == {i \in 1..Len(report.components) : report.components[i].resourceType = rt}
    IN  IF known = {}
        THEN [report EXCEPT !.components =
                Append(@, [resourceType |-> rt, count |-> 1, properties |-> keys])]
        ELSE LET i == CHOOSE i \in known : TRUE
             IN  [report EXCEPT !.components[i] =
                    [resourceType |-> rt, count |-> @.count + 1,
                     properties |-> @.properties \cup keys]]

\* traverse(node, report) without the recursion
VisitNode(node, report) ==
    LET r1 == IF HasTruthy(node, "cq:template")
              THEN AddTemplate(report, node.props["cq:template"]) ELSE report
    IN  IF HasTruthy(node, "sling:resourceType")
        THEN AddComponent(r1, node.props["sling:resourceType"], DOMAIN node.props)
        ELSE r1

RECURSIVE Traverse(_, _)
RECURSIVE TraverseAll(_, _)
Traverse(node, report) == TraverseAll(node.children, VisitNode(node, report))
TraverseAll(nodes, report) ==
    IF nodes = <<>> THEN report
    ELSE TraverseAll(Tail(nodes), Traverse(Head(nodes), report))

\* FormatReport as it would be without the sort calls
FormatReportUnsorted(report) ==
    [templates  |-> report.templates,
     components |-> [i \in 1..Len(report.components) |->
                        [resourceType |-> report.components[i].resourceType,
                         count |-> report.components[i].count,
                         properties |-> Sorted(report.components[i].properties)]]]

\* formatReport: templates sorted, components sorted by type, each
\* component's properties sorted
FormatReport(report) ==
    LET byType == [i \in 1..Len(report.components) |-> report.components[i].resourceType]
        sortedTypes == Sorted(SeqToSet(byType))
        entry(rt) == report.components[CHOOSE i \in 1..Len(byType) : byType[i] = rt]
    IN  [templates  |-> Sorted(SeqToSet(report.templates)),
         components |-> [i \in 1..Len(sortedTypes) |->
                            [resourceType |-> sortedTypes[i],
                             count |-> entry(sortedTypes[i]).count,
                             properties |-> Sorted(entry(sortedTypes[i]).properties)]]]

analyze(rootNode) == FormatReport(Traverse(rootNode, EmptyReport))

(***************************************************************************)
(* Tabular export and its parser                                           *)
(* (analysisService.js generateCSVReport, AutoMapService.parseAnalysisCSV) *)
(*                                                                         *)
(* A line of text is a sequence of tokens: the characters the parser       *)
(* looks for (comma, double quote, semicolon, space) are tokens of their   *)
(* own, every other token is a run of characters free of them.  Indices    *)
(* are JavaScript's: 0-based, -1 for "not found".                          *)
(***************************************************************************)
Comma == ","
Quote == "\""
Semi  == ";"
Space == " "

\* the text of an identifier
Chars(id) ==
    IF id = "" THEN <<>>
    ELSE IF id = "t\"q" THEN <<"t", Quote, "q">>
    ELSE <<id>>

\* String.prototype.indexOf(ch, from)
JsIndexOf(str, ch, from) ==
    LET hits == {i \in 0..(Len(str) - 1) : i >= from /\ str[i + 1] = ch}
    IN  IF hits = {} THEN -1 ELSE CHOOSE i \in hits : \A j \in hits : i <= j

\* String.prototype.lastIndexOf(ch, from): a negative from searches index 0
JsLastIndexOf(str, ch, from) ==
    LET upto == IF from < 0 THEN 0 ELSE from
        hits == {i \in 0..(Len(str) - 1) : i <= upto /\ str[i + 1] = ch}
    IN  IF hits = {} THEN -1 ELSE CHOOSE i \in hits : \A j \in hits : i >= j

\* String.prototype.substring(a, b): arguments clamped and swapped if a > b
JsSubstring(str, a, b) ==
    LET clamp(x) == IF x < 0 THEN 0 ELSE IF x > Len(str) THEN Len(str) ELSE x
        lo == IF clamp(a) <= clamp(b) THEN clamp(a) ELSE clamp(b)
        hi == IF clamp(a) <= clamp(b) THEN clamp(b) ELSE clamp(a)
    IN  SubSeq(str, lo + 1, hi)

\* String.prototype.trim
RECURSIVE TrimStart(_)
TrimStart(str) == IF str # <<>> /\ Head(str) = Space THEN TrimStart(Tail(str)) ELSE str
RECURSIVE TrimEnd(_)
TrimEnd(str) ==
    IF str # <<>> /\ str[Len(str)] = Space THEN TrimEnd(SubSeq(str, 1, Len(str) - 1)) ELSE str
Trim(str) == TrimEnd(TrimStart(str))

\* Array.prototype.join
RECURSIVE Join(_, _)
Join(strs, sep) ==
    IF strs = <<>> THEN <<>>
    ELSE IF Len(strs) = 1 THEN strs[1]
    ELSE strs[1] \o sep \o Join(Tail(strs), sep)

\* String.prototype.split(ch): at least one piece, also for the empty string
RECURSIVE Split(_, _)
Split(str, ch) ==
    LET i == JsIndexOf(str, ch, 0)
    IN  IF i = -1 THEN <<str>>
        ELSE <<JsSubstring(str, 0, i)>> \o Split(JsSubstring(str, i + 1, Len(str)), ch)

\* generateCSVReport: the header, a line per template, a line per component;
\* the text ends with a line break, so split('\n') yields a last empty line
generateCSVReport(analysisData) ==
    <<  <<"Category", Comma, "Item", Comma, "UsageCount", Comma, "Properties">>  >>
    \o [i \in 1..Len(analysisData.templates) |->
          <<"Template", Comma, Quote>> \o Chars(analysisData.templates[i])
          \o <<Quote, Comma, Comma>>]
    \o [i \in 1..Len(analysisData.components) |->
          LET comp == analysisData.components[i]
              props == Join([j \in 1..Len(comp.properties) |-> Chars(comp.properties[j])],
                            <<Semi, Space>>)
          IN  <<"Component", Comma, Quote>> \o Chars(comp.resourceType)
              \o <<Quote, Comma, ToString(comp.count), Comma, Quote>> \o props \o <<Quote>>]
    \o << <<>> >>

\* the lookahead (?=\s*,|\s*$) after position j (1-based, the last token of
\* the candidate match)
FollowedBySeparator(line, j) ==
    LET rest == TrimStart(SubSeq(line, j + 1, Len(line)))
    IN  rest = <<>> \/ Head(rest) = Comma

\* line.match(/(".*?"|[^",\s]+)(?=\s*,|\s*$)/g) is not null
HasParts(line) ==
    \E i \in 1..Len(line) : \E j \in i..Len(line) :
        /\ FollowedBySeparator(line, j)
        /\ \/ j > i /\ line[i] = Quote /\ line[j] = Quote
           \/ \A k \in i..j : line[k] \notin {Quote, Comma, Space}

\* the property list of a component line: the text between the last two
\* quotes of the remainder, split at semicolons, each piece trimmed
ParseProperties(remainder) ==
    LET lastQuoteEnd   == JsLastIndexOf(remainder, Quote, Len(remainder))
        lastQuoteStart == JsLastIndexOf(remainder, Quote, lastQuoteEnd - 1)
    IN  IF lastQuoteStart > -1
        THEN LET pieces == Split(JsSubstring(remainder, lastQuoteStart + 1, lastQuoteEnd), Semi)
             IN  [k \in 1..Len(pieces) |-> Trim(pieces[k])]
        ELSE <<>>

\* item and remainder of a line after its category
ItemAndRemainder(afterCategory) ==
    IF StartsWith(Trim(afterCategory), <<Quote>>)
    THEN LET openQuote  == JsIndexOf(afterCategory, Quote, 0)
             closeQuote == JsIndexOf(afterCategory, Quote, openQuote + 1)
         IN  IF closeQuote > -1
             THEN [item |-> JsSubstring(afterCategory, openQuote + 1, closeQuote),
                   remainder |-> JsSubstring(afterCategory, closeQuote + 1, Len(afterCategory))]
             ELSE [item |-> <<>>, remainder |-> <<>>]
    ELSE LET nextComma == JsIndexOf(afterCategory, Comma, 0)
         IN  IF nextComma > -1
             THEN [item |-> JsSubstring(afterCategory, 0, nextComma),
                   remainder |-> JsSubstring(afterCategory, nextComma, Len(afterCategory))]
             ELSE [item |-> afterCategory, remainder |-> <<>>]

\* one iteration of the parser's loop
ParseLine(rawLine, parsed) ==
    LET line       == Trim(rawLine)
        firstComma == JsIndexOf(line, Comma, 0)
        category   == JsSubstring(line, 0, firstComma)
        ir         == ItemAndRemainder(JsSubstring(line, firstComma + 1, Len(line)))
    IN  IF line = <<>> \/ ~HasParts(line) \/ firstComma = -1 THEN parsed
        ELSE IF category = <<"Template">>
        THEN [parsed EXCEPT !.templates = Append(@, ir.item)]
        ELSE IF category = <<"Component">>
        THEN [parsed EXCEPT !.components =
                Append(@, [path |-> ir.item, properties |-> ParseProperties(ir.remainder)])]
        ELSE parsed

RECURSIVE ParseLines(_, _)
ParseLines(lines, parsed) ==
    IF lines = <<>> THEN parsed
    ELSE ParseLines(Tail(lines), ParseLine(Head(lines), parsed))

\* parseAnalysisCSV: every line after the header
parseAnalysisCSV(lines) ==
    ParseLines(Tail(lines), [templates |-> <<>>, components |-> <<>>])

----------------------------------------------------------------------------
(***************************************************************************)
(* Specification of the analysis pipeline: a tree is analysed, its report  *)
(* exported and the export parsed back; the same content with children     *)
(* in another order is analysed as well.                                   *)
(***************************************************************************)
IndexPermutations(n) == {p \in [1..n -> 1..n] : \A i, j \in 1..n : p[i] = p[j] => i = j}

\* the trees that differ from t only in the order of children, at any node
RECURSIVE Reorderings(_)
RECURSIVE ReorderedForests(_)
Reorderings(t) == {[props |-> t.props, children |-> cs] : cs \in ReorderedForests(t.children)}
ReorderedForests(f) ==
    LET n == Len(f)
    IN  UNION {{g \in [1..n -> UNION {Reorderings(f[i]) : i \in 1..n}] :
                   \A i \in 1..n : g[i] \in Reorderings(f[p[i]])} : p \in IndexPermutations(n)}

InitAnalyze ==
    /\ InitNoRun
    /\ rebase = Parked /\ xform = Parked /\ automap = Parked
    /\ \E t \in TreesUpTo(MaxTreeNodes) :
          analysis = [trees |-> <<t>>, reports |-> <<>>, csv |-> <<>>, parsed |-> <<>>]

\* the analyze route: the report of the next tree not yet analysed
AnalyzeStep ==
    /\ Len(analysis.reports) < Len(analysis.trees)
    /\ analysis' = [analysis EXCEPT
                      !.reports = Append(@, analyze(analysis.trees[Len(analysis.reports) + 1]))]
    /\ UNCHANGED <<migVars, rebase, xform, automap>>

\* the same content is uploaded with children in another order
ReorderStep ==
    /\ Len(analysis.trees) = 1
    /\ \E t \in Reorderings(analysis.trees[1]) \ {analysis.trees[1]} :
          analysis' = [analysis EXCEPT !.trees = Append(@, t)]
    /\ UNCHANGED <<migVars, rebase, xform, automap>>

\* the tabular export of the first report
ExportStep ==
    /\ Len(analysis.reports) >= 1
    /\ analysis.csv = <<>>
    /\ analysis' = [analysis EXCEPT !.csv = <<generateCSVReport(analysis.reports[1])>>]
    /\ UNCHANGED <<migVars, rebase, xform, automap>>

\* the export is read back
ParseStep ==
    /\ analysis.csv # <<>>
    /\ analysis.parsed = <<>>
    /\ analysis' = [analysis EXCEPT !.parsed = <<parseAnalysisCSV(analysis.csv[1])>>]
    /\ UNCHANGED <<migVars, rebase, xform, automap>>

NextAnalyze == AnalyzeStep \/ ReorderStep \/ ExportStep \/ ParseStep

SpecAnalyze == InitAnalyze /\ [][NextAnalyze]_vars

\* the positions of a tree: index paths from the root
RECURSIVE Positions(_)
Positions(t) ==
    {<<>>} \cup UNION {{<<i>> \o p : p \in Positions(t.children[i])} : i \in 1..Len(t.children)}

RECURSIVE NodeAt(_, _)
NodeAt(t, pos) == IF pos = <<>> THEN t ELSE NodeAt(t.children[Head(pos)], Tail(pos))

\* the positions of t whose node carries property key
Carrying(t, key) == {p \in Positions(t) : key \in DOMAIN NodeAt(t, p).props}

\* the positions of t whose node carries property key with value v
CarryingValue(t, key, v) == {p \in Carrying(t, key) : NodeAt(t, p).props[key] = v}

NoDuplicates(seq) == \A i, j \in 1..Len(seq) : seq[i] = seq[j] => i = j

\* report r lists exactly the values in tpls as templates and the values in
\* types as component types of tree t, with their counts and property unions
ReportMatches(r, t, tpls, types) ==
    /\ NoDuplicates(r.templates)
    /\ SeqToSet(r.templates) = tpls
    /\ NoDuplicates([i \in 1..Len(r.components) |-> r.components[i].resourceType])
    /\ {r.components[i].resourceType : i \in 1..Len(r.components)} = types
    /\ \A i \in 1..Len(r.components) :
          LET c  == r.components[i]
              at == CarryingValue(t, "sling:resourceType", c.resourceType)
          IN  /\ c.count = Cardinality(at)
              /\ NoDuplicates(c.properties)
              /\ SeqToSet(c.properties) = UNION {DOMAIN NodeAt(t, p).props : p \in at}

C15_ReportIndependentOfChildOrder ==
    \A i, j \in 1..Len(analysis.reports) : analysis.reports[i] = analysis.reports[j]

\* two differently ordered trees have been analysed, and the traversal met
\* their templates or component types in different orders
C15_Witness ==
    /\ Len(analysis.reports) = 2
    /\ analysis.trees[1] # analysis.trees[2]
    /\ Traverse(analysis.trees[1], EmptyReport) # Traverse(analysis.trees[2], EmptyReport)

\* the parsed export p names the templates and component types of report r
\* and gives each component type the property set r gives it
SameTemplatesAndProperties(r, p) ==
    /\ SeqToSet(p.templates) = {Chars(tpl) : tpl \in SeqToSet(r.templates)}
    /\ {p.components[i].path : i \in 1..Len(p.components)}
          = {Chars(r.components[i].resourceType) : i \in 1..Len(r.components)}
    /\ \A i \in 1..Len(r.components) : \A k \in 1..Len(p.components) :
          p.components[k].path = Chars(r.components[i].resourceType)
          => SeqToSet(p.components[k].properties)
                = {Chars(prop) : prop \in SeqToSet(r.components[i].properties)}

\* C16: exporting a report R to the tabular form and parsing it
\* back reproduces R's template set and, for each component type, its usage
\* count and property set.
C16_ExportRoundTrip ==
    analysis.parsed # <<>> =>
        LET r == analysis.reports[1]
            p == analysis.parsed[1]
        IN  /\ SameTemplatesAndProperties(r, p)
            /\ \A i \in 1..Len(r.components) : \E k \in 1..Len(p.components) :
                  /\ p.components[k].path = Chars(r.components[i].resourceType)
                  /\ "count" \in DOMAIN p.components[k]
                  /\ p.components[k].count = r.components[i].count

(***************************************************************************)
(* Part 4: Auto-Mapping Engine (AutoMapService)                            *)
(*                                                                         *)
(* Identifiers are sequences of characters.  A score is the exact rational *)
(* [num, den] of the number the code computes: equal rationals are equal   *)
(* numbers in the code too (the quotient d / maxLen is rounded the same    *)
(* way whenever it is the same fraction).                                  *)
(***************************************************************************)
\* longest name drawn from the alphabet
MaxNameLen == 2
\* largest number of declared targets
MaxTargets == 2

NameChars == {"a", "b"}

\* the scenario of the documentation, and a name that needs normalising:
\* a directory prefix, upper case, surrounding quotes
LegacyArticle ==
    <<"/", "a", "p", "p", "s", "/", "l", "e", "g", "a", "c", "y", "/", "t",
      "e", "m", "p", "l", "a", "t", "e", "s", "/", "a", "r", "t", "i", "c",
      "l", "e">>
NewArticlePage ==
    <<"/", "a", "p", "p", "s", "/", "n", "e", "w", "/", "t", "e", "m", "p",
      "l", "a", "t", "e", "s", "/", "a", "r", "t", "i", "c", "l", "e", "-",
      "p", "a", "g", "e">>
QuotedUpper ==
    <<Quote, "/", "x", "/", "A", "b", Quote>>

Names == StringsUpTo(NameChars, MaxNameLen) \cup {QuotedUpper}

\* String.prototype.toLowerCase on the modelled characters
LowerChar(c) ==
    IF c = "A" THEN "a" ELSE IF c = "B" THEN "b" ELSE IF c = "P" THEN "p" ELSE c
ToLowerCase(str) == [i \in 1..Len(str) |-> LowerChar(str[i])]

\* str.replace(/"/g, '')
RECURSIVE StripQuotes(_)
StripQuotes(str) ==
    IF str = <<>> THEN <<>>
    ELSE (IF Head(str) = Quote THEN <<>> ELSE <<Head(str)>>) \o StripQuotes(Tail(str))

\* path.basename: trailing separators dropped, then the text after the last
\* separator
RECURSIVE DropTrailingSlashes(_)
DropTrailingSlashes(str) ==
    IF str # <<>> /\ str[Len(str)] = "/"
    THEN DropTrailingSlashes(SubSeq(str, 1, Len(str) - 1)) ELSE str

Basename(str) ==
    LET s == DropTrailingSlashes(str)
        slashes == {i \in 1..Len(s) : s[i] = "/"}
        last == IF slashes = {} THEN 0 ELSE CHOOSE i \in slashes : \A j \in slashes : i >= j
    IN  SubSeq(s, last + 1, Len(s))

Min(x, y) == IF x <= y THEN x ELSE y
Max(x, y) == IF x >= y THEN x ELSE y

\* one row of the matrix: row i from row i - 1, for the i-th character of b
RECURSIVE LevRow(_, _, _, _)
LevRow(prev, a, bChar, row) ==
    LET j == Len(row)
    IN  IF j > Len(a) THEN row
        ELSE LevRow(prev, a, bChar,
                Append(row,
                    IF bChar = a[j] THEN prev[j]
                    ELSE Min(prev[j] + 1, Min(row[j] + 1, prev[j + 1] + 1))))

\* the rows after the first: matrix[i] is computed from matrix[i - 1]
\* (matrix[k], 1-based, is row k - 1 of the code's matrix)
RECURSIVE LevRows(_, _, _)
LevRows(a, b, matrix) ==
    LET i == Len(matrix)
    IN  IF i > Len(b) THEN matrix
        ELSE LevRows(a, b, Append(matrix, LevRow(matrix[i], a, b[i], <<i>>)))

\* levenshtein as it would be if every pair were at distance 0
levenshteinNone(a, b) == 0

\* levenshtein(a, b): rows are indexed by b, columns by a; the result is
\* matrix[b.length][a.length]
levenshtein(a, b) ==
    IF Len(a) = 0 THEN Len(b)
    ELSE IF Len(b) = 0 THEN Len(a)
    ELSE LevRows(a, b, << [j \in 1..(Len(a) + 1) |-> j - 1] >>)[Len(b) + 1][Len(a) + 1]

\* rational scores
Whole(n) == [num |-> n, den |-> 1]
Greater(x, y) == x.num * y.den > y.num * x.den
AtLeast(x, n) == x.num >= n * x.den
Plus(x, n) == [num |-> x.num + n * x.den, den |-> x.den]
SameScore(x, y) == x.num * y.den = y.num * x.den

\* Fuzzy as it would be if the distance were subtracted from 100 without
\* normalising it
FuzzyUnscaled(distance, maxLen) == Whole(100 - distance)

\* (1 - distance / maxLen) * 60
Fuzzy(distance, maxLen) == [num |-> 60 * (maxLen - distance), den |-> maxLen]

\* calculateScore as it would be without the exact-match rung
calculateScoreNoExact(str1, str2) ==
    LET base1 == Basename(ToLowerCase(StripQuotes(str1)))
        base2 == Basename(ToLowerCase(StripQuotes(str2)))
        maxLen == Max(Len(base1), Len(base2))
    IN  IF Includes(base2, base1) \/ Includes(base1, base2) THEN Whole(70)
        ELSE IF maxLen = 0 THEN Whole(0)
        ELSE Fuzzy(levenshtein(base1, base2), maxLen)

calculateScore(str1, str2) ==
    LET base1 == Basename(ToLowerCase(StripQuotes(str1)))
        base2 == Basename(ToLowerCase(StripQuotes(str2)))
        maxLen == Max(Len(base1), Len(base2))
    IN  IF base1 = base2 THEN Whole(90)
        ELSE IF Includes(base2, base1) \/ Includes(base1, base2) THEN Whole(70)
        ELSE IF maxLen = 0 THEN Whole(0)
        ELSE Fuzzy(levenshtein(base1, base2), maxLen)

\* the ladder of matchProperties for one pair of property names
PropertyScore(sourceProp, targetProp) ==
    LET lower1 == ToLowerCase(sourceProp)
        lower2 == ToLowerCase(targetProp)
    IN  IF sourceProp = targetProp THEN Whole(100)
        ELSE IF lower1 = lower2 THEN Whole(90)
        ELSE IF Includes(lower1, lower2) \/ Includes(lower2, lower1) THEN Whole(70)
        ELSE Fuzzy(levenshtein(lower1, lower2), Max(Len(sourceProp), Len(targetProp)))

\* Threshold for accepting a match
matchThreshold == 60

NoMatchFound == <<"no match found">>

\* BestOf as it would be if a later target replaced an equally scored
\* earlier one (score >= bestScore)
RECURSIVE BestOfLastSeen(_, _, _)
BestOfLastSeen(scores, i, best) ==
    IF i > Len(scores) THEN best
    ELSE BestOfLastSeen(scores, i + 1,
            IF scores[i] # <<>> /\ ~Greater(best.score, scores[i][1])
            THEN [index |-> i, score |-> scores[i][1]] ELSE best)

\* the forEach over the targets: scores[i] is <<>> for a target without a
\* path (skipped) and <<score>> otherwise; a target replaces the best so far
\* only if score > bestScore.  index 0 is bestMatch = null.
RECURSIVE BestOf(_, _, _)
BestOf(scores, i, best) ==
    IF i > Len(scores) THEN best
    ELSE BestOf(scores, i + 1,
            IF scores[i] # <<>> /\ Greater(scores[i][1], best.score)
            THEN [index |-> i, score |-> scores[i][1]] ELSE best)

NoBest == [index |-> 0, score |-> Whole(-1)]

\* FinalMatch as it would be if every best match were accepted
FinalMatchAlways(best, paths) ==
    IF best.index > 0 THEN paths[best.index] ELSE NoMatchFound

\* (bestScore >= this.matchThreshold) ? bestMatch : 'no match found'
FinalMatch(best, paths) ==
    IF AtLeast(best.score, matchThreshold) THEN paths[best.index] ELSE NoMatchFound

\* finalMatch === 'no match found' ? '' : finalMatch
MappingTarget(finalMatch) == IF finalMatch = NoMatchFound THEN <<>> ELSE finalMatch

\* matchTemplates for one source template
MatchTemplate(source, targetTemplates) ==
    LET paths  == [i \in 1..Len(targetTemplates) |-> targetTemplates[i].targetTemplate]
        scores == [i \in 1..Len(paths) |->
                     IF paths[i] # <<>> THEN <<calculateScore(source, paths[i])>> ELSE <<>>]
        best   == BestOf(scores, 1, NoBest)
        finalMatch == FinalMatch(best, paths)
    IN  [source |-> source, target |-> finalMatch, score |-> best.score,
         mapping |-> [sourceTemplate |-> source,
                      targetTemplate |-> MappingTarget(finalMatch),
                      propertyMappings |-> <<>>]]

matchTemplates(sourceTemplates, targetTemplates) ==
    [k \in 1..Len(sourceTemplates) |-> MatchTemplate(sourceTemplates[k], targetTemplates)]

\* matchProperties as it would be if every best target property were
\* accepted, whatever its score
matchPropertiesNoThreshold(sourceProps, targetProps) ==
    LET bestFor(p) == BestOf([i \in 1..Len(targetProps) |-> <<PropertyScore(p, targetProps[i])>>],
                             1, NoBest)
        accepted == {p \in SeqToSet(sourceProps) : bestFor(p).index > 0}
    IN  [p \in accepted |-> targetProps[bestFor(p).index]]

\* matchProperties: each source property is mapped to its best target
\* property if that scores at least 50
matchProperties(sourceProps, targetProps) ==
    LET bestFor(p) == BestOf([i \in 1..Len(targetProps) |-> <<PropertyScore(p, targetProps[i])>>],
                             1, NoBest)
        accepted == {p \in SeqToSet(sourceProps) : AtLeast(bestFor(p).score, 50)}
    IN  [p \in accepted |-> targetProps[bestFor(p).index]]

\* the score of one target component: name score, bonus for equal names,
\* bonus for shared properties
ComponentScore(source, target) ==
    LET nameScore  == calculateScore(source.path, target.targetComponent)
        sourceName == StripQuotes(ToLowerCase(Basename(source.path)))
        targetName == ToLowerCase(Basename(target.targetComponent))
        withName   == IF sourceName = targetName THEN Plus(nameScore, 20) ELSE nameScore
        overlap    == Cardinality({i \in 1..Len(source.properties) :
                                     source.properties[i] \in SeqToSet(target.properties)})
    IN  Plus(withName, Min(overlap * 2, 20))

\* matchComponents for one source component
MatchComponent(source, targetComponents) ==
    LET paths  == [i \in 1..Len(targetComponents) |-> targetComponents[i].targetComponent]
        scores == [i \in 1..Len(paths) |->
                     IF paths[i] # <<>> THEN <<ComponentScore(source, targetComponents[i])>>
                     ELSE <<>>]
        best   == BestOf(scores, 1, NoBest)
        finalMatch == FinalMatch(best, paths)
        propMap == IF AtLeast(best.score, matchThreshold)
                   THEN matchProperties(source.properties, targetComponents[best.index].properties)
                   ELSE <<>>
    IN  [source |-> source.path, target |-> finalMatch, score |-> best.score,
         mapping |-> [sourceComponent |-> source.path,
                      targetComponent |-> MappingTarget(finalMatch),
                      propertyMappings |-> propMap]]

matchComponents(sourceComponents, targetComponents) ==
    [k \in 1..Len(sourceComponents) |-> MatchComponent(sourceComponents[k], targetComponents)]

----------------------------------------------------------------------------
(***************************************************************************)
(* Specification of the matching: one source identifier and a list of      *)
(* declared targets; the identifier is scored, matched as a template, or   *)
(* matched as a component with property lists.                             *)
(***************************************************************************)
TargetLists == UNION {[1..n -> Names] : n \in 0..MaxTargets}

\* a source identifier with a list of declared targets
MatchInputs ==
    {[source |-> src, targets |-> tgts] : src \in Names, tgts \in TargetLists}
    \cup {[source |-> LegacyArticle, targets |-> <<NewArticlePage>>]}

PropP  == <<"p">>
PropX  == <<"x">>
PropUp == <<"P">>
SourceProps == <<PropP, PropX>>
TargetPropLists == {<<>>, <<PropUp, PropP>>}

InitAutoMap ==
    /\ InitNoRun
    /\ rebase = Parked /\ xform = Parked /\ analysis = Parked
    /\ \E in \in MatchInputs :
          automap = [source |-> in.source, targets |-> in.targets,
                     scores |-> <<>>, templates |-> <<>>, components |-> <<>>]

Untouched == automap.scores = <<>> /\ automap.templates = <<>> /\ automap.components = <<>>

\* the scores of the source against itself and against every target, by the
\* name ladder and by the property ladder
ScoreStep ==
    /\ Untouched
    /\ automap' = [automap EXCEPT !.scores =
          <<[self     |-> calculateScore(automap.source, automap.source),
             propSelf |-> PropertyScore(automap.source, automap.source),
             pairs    |-> [i \in 1..Len(automap.targets) |->
                             calculateScore(automap.source, automap.targets[i])],
             propPairs |-> [i \in 1..Len(automap.targets) |->
                             PropertyScore(automap.source, automap.targets[i])]]>>]
    /\ UNCHANGED <<migVars, rebase, xform, analysis>>

\* generateMappings, step 2
MatchTemplatesStep ==
    /\ Untouched
    /\ automap' = [automap EXCEPT !.templates =
          matchTemplates(<<automap.source>>,
              [i \in 1..Len(automap.targets) |-> [targetTemplate |-> automap.targets[i]]])]
    /\ UNCHANGED <<migVars, rebase, xform, analysis>>

\* generateMappings, step 3
MatchComponentsStep ==
    /\ Untouched
    /\ \E tp \in [1..Len(automap.targets) -> TargetPropLists] :
          automap' = [automap EXCEPT !.components =
              <<[sourceProps |-> SourceProps, targetProps |-> tp,
                 results |-> matchComponents(
                     <<[path |-> automap.source, properties |-> SourceProps]>>,
                     [i \in 1..Len(automap.targets) |->
                        [targetComponent |-> automap.targets[i], properties |-> tp[i]]])]>>]
    /\ UNCHANGED <<migVars, rebase, xform, analysis>>

NextAutoMap == ScoreStep \/ MatchTemplatesStep \/ MatchComponentsStep

SpecAutoMap == InitAutoMap /\ [][NextAutoMap]_vars

\* the declared targets that carry a path, by position
Declared == {i \in 1..Len(automap.targets) : automap.targets[i] # <<>>}

\* C17: for every non-empty normalized string a, calculateScore(a, a) = 90,
\* and the property ladder of matchProperties scores a property name against
\* itself as 100.
C17_SelfScore ==
    \A k \in 1..Len(automap.scores) :
        /\ automap.scores[k].self = Whole(90)
        /\ automap.scores[k].propSelf = Whole(100)
        /\ \A i \in 1..Len(automap.targets) :
              automap.targets[i] = automap.source
              => /\ automap.scores[k].pairs[i] = Whole(90)
                 /\ automap.scores[k].propPairs[i] = Whole(100)

\* a non-empty name whose basename is non-empty has been scored against a
\* target equal to it
C17_Witness ==
    /\ automap.scores # <<>>
    /\ Basename(ToLowerCase(StripQuotes(automap.source))) # <<>>
    /\ \E i \in 1..Len(automap.targets) : automap.targets[i] = automap.source

\* the rung of calculateScore that scores the pair
Rung(str1, str2) ==
    LET base1 == Basename(ToLowerCase(StripQuotes(str1)))
        base2 == Basename(ToLowerCase(StripQuotes(str2)))
    IN  IF base1 = base2 THEN "exact"
        ELSE IF Includes(base2, base1) \/ Includes(base1, base2) THEN "contains"
        ELSE "distance"

NormalizedLen(str) == Len(Basename(ToLowerCase(StripQuotes(str))))

\* C18: for non-empty basenames, a pair scored by the exact-match rung
\* scores strictly higher than any pair scored by the containment rung, which
\* scores strictly higher than any pair of the same maximum length scored by
\* the edit-distance rung.
C18_LadderStrictlyMonotonic ==
    \A k \in 1..Len(automap.scores) :
        LET n    == Len(automap.targets)
            rung == [i \in 1..n |-> Rung(automap.source, automap.targets[i])]
            len  == [i \in 1..n |-> NormalizedLen(automap.targets[i])]
            srcLen == NormalizedLen(automap.source)
            score == automap.scores[k].pairs
        IN  \A i, j \in 1..n :
               (srcLen > 0 /\ len[i] > 0 /\ len[j] > 0)
               => /\ (rung[i] = "exact" /\ rung[j] = "contains") => Greater(score[i], score[j])
                  /\ (rung[i] = "exact" /\ rung[j] = "distance") => Greater(score[i], score[j])
                  /\ (/\ rung[i] = "contains" /\ rung[j] = "distance"
                      /\ Max(srcLen, len[i]) = Max(srcLen, len[j]))
                     => Greater(score[i], score[j])

\* a containment pair and an edit-distance pair of the same maximum length
\* whose distance score is not zero have been scored
C18_Witness ==
    /\ automap.scores # <<>>
    /\ \E i, j \in 1..Len(automap.targets) :
          /\ Rung(automap.source, automap.targets[i]) = "contains"
          /\ Rung(automap.source, automap.targets[j]) = "distance"
          /\ NormalizedLen(automap.source) > 0
          /\ NormalizedLen(automap.targets[i]) > 0
          /\ Max(NormalizedLen(automap.source), NormalizedLen(automap.targets[i]))
                = Max(NormalizedLen(automap.source), NormalizedLen(automap.targets[j]))
          /\ automap.scores[1].pairs[j].num > 0

\* the sequence seq as a tuple, each element evaluated once
Evaluated(seq) == seq \o <<>>

\* position i holds the first of the best-scored declared targets
FirstBest(scores, i) ==
    /\ i \in Declared
    /\ \A j \in Declared : ~Greater(scores[j], scores[i])
    /\ \A j \in Declared : j < i => Greater(scores[i], scores[j])

\* result r reports the score of the first best target and, if it names a
\* target at all, names that one
SelectsFirstBest(r, scores) ==
    IF Declared = {} THEN r.target = NoMatchFound
    ELSE \E i \in Declared :
            /\ FirstBest(scores, i)
            /\ SameScore(r.score, scores[i])
            /\ r.target \in {automap.targets[i], NoMatchFound}

\* C19: for each source template, matchTemplates selects the target with the
\* maximal score over the declared target list, the first in the list when
\* several tie for the maximum; matchComponents breaks ties the same way.
C19_FirstSeenMaximum ==
    /\ \A k \in 1..Len(automap.templates) :
          LET scores == Evaluated([i \in 1..Len(automap.targets) |->
                            calculateScore(automap.source, automap.targets[i])])
          IN  SelectsFirstBest(automap.templates[k], scores)
    /\ \A k \in 1..Len(automap.components) :
          LET c == automap.components[k]
              scores == Evaluated([i \in 1..Len(automap.targets) |->
                            ComponentScore(
                                [path |-> automap.source, properties |-> c.sourceProps],
                                [targetComponent |-> automap.targets[i],
                                 properties |-> c.targetProps[i]])])
          IN  \A n \in 1..Len(c.results) : SelectsFirstBest(c.results[n], scores)

\* two different targets tie for an accepted maximum and the first is chosen
C19_Witness ==
    /\ automap.templates # <<>>
    /\ Len(automap.targets) = 2
    /\ automap.targets[1] # automap.targets[2]
    /\ SameScore(calculateScore(automap.source, automap.targets[1]),
                 calculateScore(automap.source, automap.targets[2]))
    /\ automap.templates[1].target = automap.targets[1]

\* the same for components
C19_ComponentWitness ==
    /\ automap.components # <<>>
    /\ Len(automap.targets) = 2
    /\ automap.targets[1] # automap.targets[2]
    /\ automap.components[1].targetProps[1] # <<>>
    /\ AtLeast(automap.components[1].results[1].score, matchThreshold)
    /\ automap.components[1].results[1].target = automap.targets[1]
    /\ \E i \in {2} :
          SameScore(automap.components[1].results[1].score,
                    ComponentScore([path |-> automap.source,
                                    properties |-> automap.components[1].sourceProps],
                                   [targetComponent |-> automap.targets[i],
                                    properties |-> automap.components[1].targetProps[i]]))

\* C20: a source template's best target is accepted if and only if its best
\* score is >= 60; otherwise the result is marked "no match found", the
\* mapping's targetTemplate is empty and its propertyMappings is empty.
\* Source "/apps/legacy/templates/article" against target
\* "/apps/new/templates/article-page" scores 70 and is accepted.
C20_AcceptedIffAtLeastThreshold ==
    \A k \in 1..Len(automap.templates) :
        LET r == automap.templates[k]
        IN  /\ AtLeast(r.score, 60)
               => /\ r.target # NoMatchFound
                  /\ \E i \in Declared : r.target = automap.targets[i]
                  /\ r.mapping.targetTemplate = r.target
            /\ ~AtLeast(r.score, 60)
               => /\ r.target = NoMatchFound
                  /\ r.mapping.targetTemplate = <<>>
            /\ r.mapping.propertyMappings = <<>>
            /\ r.mapping.sourceTemplate = automap.source
            /\ (automap.source = LegacyArticle /\ automap.targets = <<NewArticlePage>>)
               => /\ r.score = Whole(70)
                  /\ r.target = NewArticlePage
                  /\ r.mapping.targetTemplate = NewArticlePage

\* the documented scenario has been matched
C20_Witness ==
    /\ automap.templates # <<>>
    /\ automap.source = LegacyArticle
    /\ automap.targets = <<NewArticlePage>>
    /\ automap.templates[1].target = NewArticlePage

\* a best match below the threshold has been rejected
C20_RejectedWitness ==
    /\ automap.templates # <<>>
    /\ Declared # {}
    /\ automap.templates[1].score.num > 0
    /\ automap.templates[1].target = NoMatchFound

\* the whole identifier after normalisation: quotes stripped, lower case
FullNormalized(str) == ToLowerCase(StripQuotes(str))

\* min(overlap * 2, 20) for a source and a target property list
OverlapBonus(sourceProps, targetProps) ==
    Min(2 * Cardinality({i \in 1..Len(sourceProps) : sourceProps[i] \in SeqToSet(targetProps)}),
        20)

\* C21: in component matching the +20 bonus is added to a candidate's score
\* exactly when the full normalized source identifier equals the full
\* normalized target identifier (not merely when their basenames are equal).
C21_BonusOnFullIdentifierMatch ==
    \A k \in 1..Len(automap.components) :
        LET c == automap.components[k]
            expected == Evaluated([i \in 1..Len(automap.targets) |->
                Plus(calculateScore(automap.source, automap.targets[i]),
                     (IF FullNormalized(automap.source) = FullNormalized(automap.targets[i])
                      THEN 20 ELSE 0)
                     + OverlapBonus(c.sourceProps, c.targetProps[i]))])
        IN  \A n \in 1..Len(c.results) :
               Declared # {}
               => /\ \E i \in Declared : SameScore(c.results[n].score, expected[i])
                  /\ \A j \in Declared : ~Greater(expected[j], c.results[n].score)

\* C27: calculateScore returns 0 when both compared strings are empty (both
\* normalized basenames are the empty string).
C27_EmptyPairScoresZero ==
    \A k \in 1..Len(automap.scores) :
        /\ NormalizedLen(automap.source) = 0 => automap.scores[k].self = Whole(0)
        /\ \A i \in 1..Len(automap.targets) :
              (NormalizedLen(automap.source) = 0 /\ NormalizedLen(automap.targets[i]) = 0)
              => automap.scores[k].pairs[i] = Whole(0)

\* 0 <= score <= 100
InRange(score) == AtLeast(score, 0) /\ ~Greater(score, Whole(100))

\* C29: for every source inventory and every target inventory (including an
\* empty target list), the score recorded for each source template and each
\* source component in the match results lies within [0, 100].
C29_ScoresWithinRange ==
    /\ \A k \in 1..Len(automap.templates) : InRange(automap.templates[k].score)
    /\ \A k \in 1..Len(automap.components) :
          \A n \in 1..Len(automap.components[k].results) :
             InRange(automap.components[k].results[n].score)

\* C30: in template matching the edit-distance rung alone never reaches the
\* acceptance threshold: a target whose normalized basename neither equals
\* nor contains nor is contained in the source's basename scores strictly
\* below 60, so every accepted template mapping pairs basenames that are
\* equal or in a containment relation.
C30_DistanceRungBelowThreshold ==
    /\ \A k \in 1..Len(automap.scores) : \A i \in 1..Len(automap.targets) :
          Rung(automap.source, automap.targets[i]) = "distance"
          => ~AtLeast(automap.scores[k].pairs[i], 60)
    /\ \A k \in 1..Len(automap.templates) :
          automap.templates[k].target # NoMatchFound
          => \E i \in Declared :
                /\ automap.templates[k].target = automap.targets[i]
                /\ Rung(automap.source, automap.targets[i]) \in {"exact", "contains"}

\* a template whose declared targets are all scored by the edit-distance
\* rung, the best of them above 0, has been left unmatched
C30_Witness ==
    /\ automap.templates # <<>>
    /\ Len(automap.targets) = 2
    /\ Declared = {1, 2}
    /\ \A i \in Declared : Rung(automap.source, automap.targets[i]) = "distance"
    /\ automap.templates[1].score.num > 0
    /\ automap.templates[1].target = NoMatchFound

----------------------------------------------------------------------------
(***************************************************************************)
(* Specification of the property matching of a component: the property     *)
(* list of the source, the declared properties of the best target, and     *)
(* whether that target was accepted.                                       *)
(***************************************************************************)
\* longest property list
MaxPropList == 2

SiteLogo == <<"s", "i", "t", "e", "l", "o", "g", "o">>
Title    == <<"t", "i", "t", "l", "e">>
Logo     == <<"l", "o", "g", "o">>

\* a misspelling of sitelogo, at edit distance 1
SiteLago == <<"s", "i", "t", "e", "l", "a", "g", "o">>

PropertyNames == {PropP, PropUp, SiteLogo, SiteLago, Title, Logo}
PropertyLists == UNION {[1..n -> PropertyNames] : n \in 0..MaxPropList}

InitProps ==
    /\ InitNoRun
    /\ rebase = Parked /\ xform = Parked /\ analysis = Parked
    /\ \E sp \in PropertyLists : \E tp \in PropertyLists :
          automap = [sourceProps |-> sp, targetProps |-> tp, mapped |-> <<>>]

\* the end of matchComponents for one source: propMap is filled by
\* matchProperties if the best target was accepted, and stays {} otherwise
MatchPropertiesStep ==
    /\ automap.mapped = <<>>
    /\ \E accepted \in BOOLEAN :
          automap' = [automap EXCEPT !.mapped =
              <<[accepted |-> accepted,
                 propertyMappings |->
                    IF accepted THEN matchProperties(automap.sourceProps, automap.targetProps)
                    ELSE <<>>]>>]
    /\ UNCHANGED <<migVars, rebase, xform, analysis>>

NextProps == MatchPropertiesStep

SpecProps == InitProps /\ [][NextProps]_vars

\* position i of the target properties is the first with the maximal ladder
\* score for source property p
FirstBestProperty(scores, i) ==
    /\ \A j \in 1..Len(scores) : ~Greater(scores[j], scores[i])
    /\ \A j \in 1..Len(scores) : j < i => Greater(scores[i], scores[j])

\* C22: for an accepted component match, matchProperties maps each source
\* property name to the first target property with maximal property-ladder
\* score if that score is >= 50 and omits the source property otherwise;
\* source properties [sitelogo, title] against target properties
\* [logo, title] yield exactly {sitelogo: logo, title: title}.
C22_PropertiesMappedToFirstBest ==
    \A k \in 1..Len(automap.mapped) :
        automap.mapped[k].accepted =>
            LET m  == automap.mapped[k].propertyMappings
                tp == automap.targetProps
            IN  /\ DOMAIN m \subseteq SeqToSet(automap.sourceProps)
                /\ \A p \in SeqToSet(automap.sourceProps) :
                      LET scores == Evaluated([i \in 1..Len(tp) |-> PropertyScore(p, tp[i])])
                      IN  IF \E i \in 1..Len(tp) : AtLeast(scores[i], 50)
                          THEN /\ p \in DOMAIN m
                               /\ \E i \in 1..Len(tp) :
                                     FirstBestProperty(scores, i) /\ m[p] = tp[i]
                          ELSE p \notin DOMAIN m
                /\ (automap.sourceProps = <<SiteLogo, Title>> /\ tp = <<Logo, Title>>)
                   => /\ DOMAIN m = {SiteLogo, Title}
                      /\ m[SiteLogo] = Logo
                      /\ m[Title] = Title

\* the documented property lists have been matched for an accepted target
C22_Witness ==
    /\ automap.mapped # <<>>
    /\ automap.mapped[1].accepted
    /\ automap.sourceProps = <<SiteLogo, Title>>
    /\ automap.targetProps = <<Logo, Title>>
    /\ DOMAIN automap.mapped[1].propertyMappings = {SiteLogo, Title}

\* a source property is omitted because its best target scores below 50
C22_OmittedWitness ==
    /\ automap.mapped # <<>>
    /\ automap.mapped[1].accepted
    /\ automap.targetProps # <<>>
    /\ \E p \in SeqToSet(automap.sourceProps) : p \notin DOMAIN automap.mapped[1].propertyMappings

\* a source property has been mapped to a target property that differs from
\* it by a misspelling only (edit-distance rung, score 52.5)
C22_FuzzyWitness ==
    /\ automap.mapped # <<>>
    /\ automap.mapped[1].accepted
    /\ automap.sourceProps = <<SiteLago>>
    /\ automap.targetProps = <<Title, SiteLogo>>
    /\ automap.mapped[1].propertyMappings[SiteLago] = SiteLogo

----------------------------------------------------------------------------
(***************************************************************************)
(* Part 5: Tree Builder.  The descriptor parser                            *)
(***************************************************************************)
\* largest number of elements in a modelled descriptor, jcr:root included
MaxElements == 4

ElementNames == {"a", "b"}

\* the attributes an element may carry
AttributeSets == {<<>>, [k \in {"jcr:primaryType"} |-> "cq:Page"]}

RECURSIVE ElementSize(_)
RECURSIVE ElementsSize(_)
ElementSize(el) == 1 + ElementsSize(el.children)
ElementsSize(els) == IF els = <<>> THEN 0 ELSE ElementSize(Head(els)) + ElementsSize(Tail(els))

\* the elements with at most n elements in all, and the element sequences
\* with at most m
RECURSIVE ElementsUpTo(_)
RECURSIVE ElementListsUpTo(_)
ElementsUpTo(n) ==
    IF n = 0 THEN {}
    ELSE {[name |-> nm, attributes |-> at, children |-> cs] :
              nm \in ElementNames, at \in AttributeSets, cs \in ElementListsUpTo(n - 1)}
ElementListsUpTo(m) ==
    IF m = 0 THEN {<<>>}
    ELSE {<<>>} \cup UNION {{<<el>> \o els : els \in ElementListsUpTo(m - ElementSize(el))}
                            : el \in ElementsUpTo(m)}

\* the well-formed descriptors: one jcr:root element and what it encloses
Documents ==
    {[name |-> "jcr:root", attributes |-> at, children |-> cs] :
        at \in AttributeSets, cs \in ElementListsUpTo(MaxElements - 1)}

\* the events the strict sax stream emits for an element: its opentag, the
\* events of the enclosed elements in document order, its closetag
RECURSIVE Events(_)
RECURSIVE EventsOfAll(_)
Events(el) ==
    <<[type |-> "opentag", name |-> el.name, attributes |-> el.attributes]>>
    \o EventsOfAll(el.children)
    \o <<[type |-> "closetag", name |-> el.name, attributes |-> <<>>]>>
EventsOfAll(els) == IF els = <<>> THEN <<>> ELSE Events(Head(els)) \o EventsOfAll(Tail(els))

ErrorEvent == [type |-> "error", name |-> "", attributes |-> <<>>]

\* a descriptor whose markup breaks off: the events up to the fault, then error
MalformedStreams(doc) ==
    {SubSeq(Events(doc), 1, k) \o <<ErrorEvent>> : k \in 0..(Len(Events(doc)) - 1)}

\* let rootNode = null; const stack = [];  rootNode is <<>> while null; the
\* stack holds references, modelled as positions below rootNode
NewParser == [rootNode |-> <<>>, stack |-> <<>>, settled |-> "pending"]

\* const newNode = {name, primaryType, properties, children}
NewNode(ev) ==
    [name |-> ev.name,
     primaryType |-> IF "jcr:primaryType" \in DOMAIN ev.attributes
                        /\ Truthy(ev.attributes["jcr:primaryType"])
                     THEN ev.attributes["jcr:primaryType"]
                     ELSE "nt:unstructured",
     properties |-> ev.attributes,
     children |-> <<>>]

\* parent.children.push(child) for the node at position pos below node
RECURSIVE PushChild(_, _, _)
PushChild(node, pos, child) ==
    IF pos = <<>> THEN [node EXCEPT !.children = Append(@, child)]
    ELSE [node EXCEPT !.children[Head(pos)] = PushChild(@, Tail(pos), child)]

\* parser.on('opentag')
OnOpenTag(st, ev) ==
    IF st.rootNode = <<>> THEN
        [st EXCEPT !.rootNode = <<NewNode(ev)>>, !.stack = Append(@, <<>>)]
    ELSE
        LET parent == st.stack[Len(st.stack)]
            index  == Len(NodeAt(st.rootNode[1], parent).children) + 1
        IN  [st EXCEPT !.rootNode = <<PushChild(@[1], parent, NewNode(ev))>>,
                       !.stack = Append(@, Append(parent, index))]

\* parser.on('closetag') as it would be without stack.pop()
OnCloseTagNoPop(st) == st

\* parser.on('closetag')
OnCloseTag(st) == [st EXCEPT !.stack = SubSeq(@, 1, Len(@) - 1)]

\* the promise of parseContentXmlDeep over the events from the i-th on
RECURSIVE ParseFrom(_, _, _)
ParseFrom(events, i, st) ==
    IF i > Len(events) THEN [st EXCEPT !.settled = "resolved"]
    ELSE IF events[i].type = "error" THEN [st EXCEPT !.settled = "rejected"]
    ELSE IF events[i].type = "opentag" THEN ParseFrom(events, i + 1, OnOpenTag(st, events[i]))
    ELSE ParseFrom(events, i + 1, OnCloseTag(st))

parseContentXmlDeep(events) == ParseFrom(events, 1, NewParser)

\* parseContentXml delegates to parseContentXmlDeep
parseContentXml(events) == parseContentXmlDeep(events)

(***************************************************************************)
(* Specification of the descriptor parser: one stream event per step       *)
(***************************************************************************)
InitParse ==
    /\ InitNoRun
    /\ rebase = Parked /\ analysis = Parked /\ automap = Parked
    /\ \E doc \in Documents : \E events \in {Events(doc)} \cup MalformedStreams(doc) :
          xform = [doc |-> doc, events |-> events, pos |-> 0, parser |-> NewParser]

\* the next event of the stream, if the promise is still pending
Pending(type) ==
    /\ xform.parser.settled = "pending"
    /\ xform.pos < Len(xform.events)
    /\ xform.events[xform.pos + 1].type = type

OpenTag ==
    /\ Pending("opentag")
    /\ xform' = [xform EXCEPT !.pos = @ + 1,
                              !.parser = OnOpenTag(@, xform.events[xform.pos + 1])]
    /\ UNCHANGED <<migVars, rebase, analysis, automap>>

CloseTag ==
    /\ Pending("closetag")
    /\ xform' = [xform EXCEPT !.pos = @ + 1, !.parser = OnCloseTag(@)]
    /\ UNCHANGED <<migVars, rebase, analysis, automap>>

\* parser.on('error', (e) => reject(e))
ParseError ==
    /\ Pending("error")
    /\ xform' = [xform EXCEPT !.pos = @ + 1, !.parser.settled = "rejected"]
    /\ UNCHANGED <<migVars, rebase, analysis, automap>>

\* parser.on('end', () => resolve(rootNode))
ParseEnd ==
    /\ xform.parser.settled = "pending"
    /\ xform.pos = Len(xform.events)
    /\ xform' = [xform EXCEPT !.parser.settled = "resolved"]
    /\ UNCHANGED <<migVars, rebase, analysis, automap>>

NextParse == OpenTag \/ CloseTag \/ ParseError \/ ParseEnd

SpecParse == InitParse /\ [][NextParse]_vars

\* the node an element stands for, with the nodes of the enclosed elements
\* in document order
RECURSIVE NodeOf(_)
NodeOf(el) ==
    [NewNode([name |-> el.name, attributes |-> el.attributes])
        EXCEPT !.children = [i \in 1..Len(el.children) |-> NodeOf(el.children[i])]]

OpenTagsSeen == Cardinality({i \in 1..xform.pos : xform.events[i].type = "opentag"})
CloseTagsSeen == Cardinality({i \in 1..xform.pos : xform.events[i].type = "closetag"})

\* C26: for every well-formed single-root descriptor parseContentXmlDeep
\* returns a tree isomorphic to the element nesting: each element-open yields
\* exactly one node, attached as the last child of the node of its enclosing
\* element, the first element is the returned root, and the stack is empty
\* when parsing ends.
C26_ParseIsomorphicToNesting ==
    LET st == xform.parser
    IN  /\ ForestSize(st.rootNode) = OpenTagsSeen
        /\ Len(st.stack) = OpenTagsSeen - CloseTagsSeen
        /\ (xform.pos > 0 /\ xform.events[xform.pos].type = "opentag") =>
              LET top == st.stack[Len(st.stack)]
              IN  /\ NodeAt(st.rootNode[1], top) = NewNode(xform.events[xform.pos])
                  /\ top # <<>> =>
                        top[Len(top)] = Len(NodeAt(st.rootNode[1], SubSeq(top, 1, Len(top) - 1)).children)
        /\ st.settled = "resolved" =>
              /\ st.rootNode = <<NodeOf(xform.doc)>>
              /\ st.stack = <<>>
              /\ st = parseContentXmlDeep(xform.events)

\* C26 witness: a descriptor with two sibling elements, the first of which
\* encloses an element of its own, has been parsed to the end.
C26_Witness ==
    /\ xform.parser.settled = "resolved"
    /\ Len(xform.doc.children) = 2
    /\ xform.doc.children[1].children # <<>>

(***************************************************************************)
(* Tree Builder: buildTree                                                 *)
(***************************************************************************)
\* directories below jcr_root in a package handed to buildTree
MaxBuildDirs == 2

Slash == <<"/">>

\* a descriptor declaring no element besides jcr:root
PlainDoc == [name |-> "jcr:root", attributes |-> [k \in {"jcr:primaryType"} |-> "cq:Page"],
             children |-> <<>>]

\* a descriptor with an inline child a that encloses an element b
InlineDoc ==
    [name |-> "jcr:root", attributes |-> <<>>,
     children |-> <<[name |-> "a", attributes |-> <<>>,
                     children |-> <<[name |-> "b", attributes |-> <<>>, children |-> <<>>]>>]>>]

\* what a .content.xml of a package may hold
DescriptorStreams ==
    {Events(PlainDoc), Events(InlineDoc), SubSeq(Events(InlineDoc), 1, 2) \o <<ErrorEvent>>}

\* the packages: the directories and files, and the events of each descriptor
Packages ==
    UNION {UNION {UNION {{[f |-> MkFs(dirs, xmls, extras), docs |-> docs]
                            : docs \in [xmls -> DescriptorStreams]}
                         : extras \in SUBSET ExtraNames}
                  : xmls \in SUBSET dirs}
           : dirs \in DirSets(MaxBuildDirs)}

\* jcrPath === '/' ? `/${name}` : `${jcrPath}/${name}`
JoinPath(jcrPath, name) ==
    IF jcrPath = Slash THEN <<"/", name>> ELSE jcrPath \o <<"/", name>>

\* the folder node created for a directory
FolderNode(nodePath, nodeName) ==
    [path |-> nodePath, name |-> nodeName, primaryType |-> "nt:folder",
     properties |-> <<>>, children |-> <<>>]

\* Object.assign(parentNode.properties, nodeData.properties) and
\* parentNode.primaryType = nodeData.primaryType || parentNode.primaryType
MergeDescriptor(parentNode, nodeData) ==
    [parentNode EXCEPT
        !.properties = [k \in DOMAIN parentNode.properties \cup DOMAIN nodeData.properties |->
                            IF k \in DOMAIN nodeData.properties THEN nodeData.properties[k]
                            ELSE parentNode.properties[k]],
        !.primaryType = IF Truthy(nodeData.primaryType) THEN nodeData.primaryType ELSE @]

\* deepNodeData.children.forEach: the inline child gets its path and is
\* pushed to parentNode.children
RECURSIVE AttachInline(_, _, _)
AttachInline(parentNode, inlineChildren, jcrPath) ==
    IF inlineChildren = <<>> THEN parentNode
    ELSE LET inlineChild == Head(inlineChildren)
             withPath == [k \in DOMAIN inlineChild \cup {"path"} |->
                             IF k = "path" THEN JoinPath(jcrPath, inlineChild.name)
                             ELSE inlineChild[k]]
         IN  AttachInline([parentNode EXCEPT !.children = Append(@, withPath)],
                          Tail(inlineChildren), jcrPath)

\* traverse(currentPath, parentNode, jcrPath): ok is FALSE when the call
\* rejected, node is parentNode as the call left it
RECURSIVE traverse(_, _, _, _)
RECURSIVE TraverseEntries(_, _, _, _, _, _)
traverse(pkg, currentPath, parentNode, jcrPath) ==
    LET entries == Listing(pkg.f, currentPath)
        contentXml == HasDescriptor(entries)
        nodeData == parseContentXml(pkg.docs[currentPath])
    IN  IF contentXml /\ nodeData.settled = "rejected" THEN [ok |-> FALSE, node |-> parentNode]
        ELSE LET merged == IF contentXml THEN MergeDescriptor(parentNode, nodeData.rootNode[1])
                           ELSE parentNode
                 looped == TraverseEntries(pkg, currentPath, merged, jcrPath, entries, 1)
                 deepNodeData == parseContentXmlDeep(pkg.docs[currentPath])
             IN  IF ~looped.ok \/ ~contentXml THEN looped
                 ELSE IF deepNodeData.settled = "rejected" THEN [ok |-> FALSE, node |-> looped.node]
                 ELSE [ok |-> TRUE,
                       node |-> AttachInline(looped.node, deepNodeData.rootNode[1].children, jcrPath)]

\* for (const entry of entries), from the i-th entry on
TraverseEntries(pkg, currentPath, parentNode, jcrPath, entries, i) ==
    IF i > Len(entries) THEN [ok |-> TRUE, node |-> parentNode]
    ELSE LET nodeName == entries[i]
             entryPath == Append(currentPath, nodeName)
             isDirectory == entryPath \in DOMAIN pkg.f /\ pkg.f[entryPath].kind = "dir"
         IN  IF ~isDirectory \/ nodeName = "META-INF" THEN
                 TraverseEntries(pkg, currentPath, parentNode, jcrPath, entries, i + 1)
             ELSE LET nodePath == JoinPath(jcrPath, nodeName)
                      sub == traverse(pkg, entryPath, FolderNode(nodePath, nodeName), nodePath)
                      pushed == [parentNode EXCEPT !.children = Append(@, sub.node)]
                  IN  IF ~sub.ok THEN [ok |-> FALSE, node |-> pushed]
                      ELSE TraverseEntries(pkg, currentPath, pushed, jcrPath, entries, i + 1)

\* buildTree(rootDir): the promise settles with the root node or rejects
buildTree(pkg) ==
    LET rootNode == FolderNode(Slash, "jcr_root")
        done == traverse(pkg, Root, rootNode, Slash)
    IN  IF done.ok THEN [settled |-> "resolved", tree |-> <<done.node>>]
        ELSE [settled |-> "rejected", tree |-> <<>>]

(***************************************************************************)
(* Specification of the Tree Builder                                       *)
(***************************************************************************)
InitTree ==
    /\ InitNoRun
    /\ rebase = Parked /\ xform = Parked /\ automap = Parked
    /\ \E pkg \in Packages :
          analysis = [pkg |-> pkg, built |-> [settled |-> "pending", tree |-> <<>>]]

\* const tree = await treeService.buildTree(jcrRoot)
BuildTreeStep ==
    /\ analysis.built.settled = "pending"
    /\ analysis' = [analysis EXCEPT !.built = buildTree(analysis.pkg)]
    /\ UNCHANGED <<migVars, rebase, xform, automap>>

NextTree == BuildTreeStep

SpecTree == InitTree /\ [][NextTree]_vars

\* the directories of the package whose descriptor stream ends in an error
MalformedDirs(pkg) ==
    {d \in DOMAIN pkg.docs : pkg.docs[d][Len(pkg.docs[d])].type = "error"}

\* the nodes of a returned tree that carry a path
PathPositions(t) == {p \in Positions(t) : "path" \in DOMAIN NodeAt(t, p)}

\* C23: in every tree returned by buildTree every non-root node (directory
\* node, inline descriptor child, nested inline descendant at any depth) has
\* a path equal to its parent's path joined by "/" with its own name, and the
\* root has path "/".
C23_PathIsParentPathAndName ==
    \A k \in 1..Len(analysis.built.tree) :
        LET t == analysis.built.tree[k]
        IN  /\ t.path = Slash
            /\ \A p \in Positions(t) \ {<<>>} :
                  LET node == NodeAt(t, p)
                      parent == NodeAt(t, SubSeq(p, 1, Len(p) - 1))
                  IN  /\ "path" \in DOMAIN node
                      /\ node.path = JoinPath(parent.path, node.name)

\* C24: in every tree returned by buildTree no two nodes have the same path,
\* including when a child is both a subdirectory on disk and an inline child
\* element of its parent's descriptor.
C24_PathsUnique ==
    \A k \in 1..Len(analysis.built.tree) :
        LET t == analysis.built.tree[k]
        IN  \A p \in PathPositions(t) : \A q \in PathPositions(t) :
                NodeAt(t, p).path = NodeAt(t, q).path => p = q

\* the JCR path of the node built for directory d
RECURSIVE JcrPath(_)
JcrPath(d) ==
    IF d = Root THEN Slash ELSE JoinPath(JcrPath(SubSeq(d, 1, Len(d) - 1)), d[Len(d)])

\* C25: when the descriptor of one directory is malformed, the Tree Builder
\* fails only that directory's subtree: the build returns a tree in which the
\* sibling subtrees, built before or after it, are present.
C25_MalformedFailsOnlySubtree ==
    analysis.built.settled # "pending" =>
        \A m \in MalformedDirs(analysis.pkg) \ {Root} :
            \A d \in BuilderDirNodes(analysis.pkg.f) :
                (~IsPrefix(m, d) /\ ~IsPrefix(d, m)) =>
                    /\ analysis.built.settled = "resolved"
                    /\ \E p \in PathPositions(analysis.built.tree[1]) :
                          NodeAt(analysis.built.tree[1], p).path = JcrPath(d)
====
